---- MODULE Spec2Model ----
(***************************************************************************)
(* Turn-based RPG battle simulator (Character, Battle) of examples_Go.     *)
(*                                                                         *)
(* Conventions of the model:                                               *)
(*  - a *Character is an id (a string); its fields live in chars[id];      *)
(*  - a nil *Weapon, *Armor, *Effect is the record Nil;                    *)
(*  - a float64 (CritMult, DamageMultiplier) is an integer number of       *)
(*    halves (3 is 1.5), which float64 represents exactly, and CritRate is *)
(*    a number of hundredths; int(float64(n) * m) truncates toward zero;   *)
(*  - a draw from math/rand is an input of the operation (\E in the        *)
(*    action that performs it);                                            *)
(*  - log is what the last operation handed to logFunc, in order.          *)
(***************************************************************************)
EXTENDS Integers, Sequences, FiniteSets

VARIABLES chars, Players, Enemies, Round, all, idx, pc, ret, call, log

\* The other programs of the repository, each a record of its service's fields:
\* the cart service (ch06/e_cart), the shop, the todo service and the chat
\* service (ch02/dungeon, ch07/minichat), the rate limiter (part_005), the web
\* console (ch05/WebCMD) and the auth server (ch02/dungeon).
VARIABLES cart, shop, todo, chat, limiter, shell, auth

battle == <<chars, Players, Enemies, Round, all, idx, pc, ret, call, log>>
services == <<cart, shop, todo, chat, limiter, shell, auth>>

vars == <<chars, Players, Enemies, Round, all, idx, pc, ret, call, log,
          cart, shop, todo, chat, limiter, shell, auth>>

\* The programs are independent processes: a specification runs one of them, and
\* Off is the state of each program it does not run.
Off == [off |-> TRUE]

ServicesOff ==
    /\ cart = Off /\ shop = Off /\ todo = Off /\ chat = Off /\ limiter = Off
    /\ shell = Off /\ auth = Off

BattleOff ==
    /\ chars = Off /\ Players = Off /\ Enemies = Off /\ Round = Off /\ all = Off
    /\ idx = Off /\ pc = Off /\ ret = Off /\ call = Off /\ log = Off

\* ------------------------------------------------------------- values

Physical == "physical"
Magic == "magic"
Pure == "pure"

Nil == [Name |-> "nil"]

NoChar == "nil"

Ev(ev, who, tgt) == [ev |-> ev, who |-> who, tgt |-> tgt]

\* Go's integer division: the quotient truncated toward zero (b > 0).
GoDiv(a, b) == IF a >= 0 THEN a \div b ELSE -((-a) \div b)

\* int(float64(n) * m) for a float m given in halves.
FloatMulToInt(n, m) == GoDiv(n * m, 2)

RECURSIVE SumOver(_, _)
SumOver(effects, field) ==
    IF effects = <<>> THEN 0
    ELSE Head(effects)[field] + SumOver(Tail(effects), field)

\* --------------------------------------------------------- Character

EffectiveAttack(c) ==
    c.Stats.Attack
    + (IF c.Weapon # Nil THEN c.Weapon.AttackBonus ELSE 0)
    + SumOver(c.Effects, "AtkMod")

EffectiveDefense(c) ==
    c.Stats.Defense
    + (IF c.Armor # Nil THEN c.Armor.DefenseBonus ELSE 0)
    + SumOver(c.Effects, "DefMod")

EffectiveSpeed(c) == c.Stats.Speed + SumOver(c.Effects, "SpeedMod")

\* TakeDamage, lines 211-218: the amount after defense or resistance.
Mitigated(c, amount, dtype) ==
    IF dtype = Physical THEN amount - GoDiv(EffectiveDefense(c), 2)
    ELSE IF dtype = Magic THEN amount - GoDiv(c.Stats.Resist, 2)
    ELSE amount

MinDamage_Zero(actual) == IF actual < 0 THEN 0 ELSE actual

\* TakeDamage, lines 219-221: "Min damage".
MinDamage(actual) == IF actual < 1 THEN 1 ELSE actual

TakeDamage_NoClamp(st, id, amount, dtype) ==
    LET c == st.chars[id]
        actual == MinDamage(Mitigated(c, amount, dtype))
        hp == c.Stats.HP - actual
    IN  IF hp <= 0
        THEN [chars |-> [st.chars EXCEPT ![id].Stats.HP = hp, ![id].Alive = FALSE],
              log |-> Append(st.log, Ev("died", id, NoChar))]
        ELSE [chars |-> [st.chars EXCEPT ![id].Stats.HP = hp], log |-> st.log]

TakeDamage(st, id, amount, dtype) ==
    LET c == st.chars[id]
        actual == MinDamage(Mitigated(c, amount, dtype))
        hp == c.Stats.HP - actual
    IN  IF hp <= 0
        THEN [chars |-> [st.chars EXCEPT ![id].Stats.HP = 0, ![id].Alive = FALSE],
              log |-> Append(st.log, Ev("died", id, NoChar))]
        ELSE [chars |-> [st.chars EXCEPT ![id].Stats.HP = hp], log |-> st.log]

ClampHP_None(hp, hpMax) == hp

\* Heal, lines 232-234: the clamp to HPMax.
ClampHP(hp, hpMax) == IF hp > hpMax THEN hpMax ELSE hp

Heal(st, id, amount) ==
    LET c == st.chars[id]
    IN  [st EXCEPT !.chars[id].Stats.HP = ClampHP(c.Stats.HP + amount, c.Stats.HPMax)]

HasMP_Always(c, amount) == TRUE

\* UseMP, line 238: whether the character can pay amount.
HasMP(c, amount) == ~(c.Stats.MP < amount)

UseMP_Free(st, id, amount) == st

UseMP(st, id, amount) ==
    IF HasMP(st.chars[id], amount)
    THEN [st EXCEPT !.chars[id].Stats.MP = @ - amount]
    ELSE st

AddEffect(st, id, e) ==
    [chars |-> [st.chars EXCEPT ![id].Effects = Append(@, e)],
     log |-> Append(st.log, Ev("gains effect", id, NoChar))]

ApplyEffectsStartTurn(st, id) ==
    LET totalDot == SumOver(st.chars[id].Effects, "DotHP")
    IN  IF totalDot # 0
        THEN LET s1 == TakeDamage(st, id, totalDot, Pure)
             IN  [s1 EXCEPT !.log = Append(@, Ev("takes DOT", id, NoChar))]
        ELSE st

\* Effect.Tick: one round less to go. Ticks counts the ticks the effect has had
\* (history: the program keeps no such field).
Tick(e) == [e EXCEPT !.Duration = @ - 1, !.Ticks = @ + 1]

Lasts_Inclusive(e) == e.Duration >= 0

\* ApplyEffectsEndTurn, line 201: a ticked effect is kept while rounds remain.
Lasts(e) == e.Duration > 0

RECURSIVE EndTurnLoop(_, _, _, _)
EndTurnLoop(effects, id, newEffects, lg) ==
    IF effects = <<>> THEN [effects |-> newEffects, log |-> lg]
    ELSE LET e == Tick(Head(effects))
         IN  IF Lasts(e)
             THEN EndTurnLoop(Tail(effects), id, Append(newEffects, e), lg)
             ELSE EndTurnLoop(Tail(effects), id, newEffects,
                              Append(lg, Ev("effect ended", id, NoChar)))

ApplyEffectsEndTurn(st, id) ==
    LET r == EndTurnLoop(st.chars[id].Effects, id, <<>>, st.log)
    IN  [chars |-> [st.chars EXCEPT ![id].Effects = r.effects], log |-> r.log]

EquipWeapon(st, id, w) ==
    [chars |-> [st.chars EXCEPT ![id].Weapon = w],
     log |-> Append(st.log, Ev("equips weapon", id, NoChar))]

UnequipWeapon(st, id) == [st EXCEPT !.chars[id].Weapon = Nil]

EquipArmor(st, id, a) ==
    LET c == st.chars[id]
        stats == IF a.HPBonus # 0
                 THEN [c.Stats EXCEPT !.HPMax = @ + a.HPBonus, !.HP = @ + a.HPBonus]
                 ELSE c.Stats
    IN  [chars |-> [st.chars EXCEPT ![id].Armor = a, ![id].Stats = stats],
         log |-> Append(st.log, Ev("equips armor", id, NoChar))]

UnequipArmor(st, id) ==
    LET c == st.chars[id]
        hpMax == c.Stats.HPMax - c.Armor.HPBonus
        stats == IF c.Armor # Nil /\ c.Armor.HPBonus # 0
                 THEN [c.Stats EXCEPT !.HPMax = hpMax,
                                      !.HP = IF @ > hpMax THEN hpMax ELSE @]
                 ELSE c.Stats
    IN  [st EXCEPT !.chars[id].Armor = Nil, !.chars[id].Stats = stats]

\* rand.Intn(max_-min_+1) + min_ of BasicAttack: the rolls it can draw.
WeaponRolls(c) ==
    IF c.Weapon # Nil THEN c.Weapon.DamageMin .. c.Weapon.DamageMax ELSE 1 .. 2

\* rand.Float64() < c.Stats.CritRate, Float64 being in [0, 1): what it can give.
CritDraws(c) ==
    IF c.Stats.CritRate <= 0 THEN {FALSE}
    ELSE IF c.Stats.CritRate >= 100 THEN {TRUE}
    ELSE BOOLEAN

BasicAttack(st, id, target, roll, crit) ==
    LET c == st.chars[id]
        dtype == IF c.Weapon # Nil THEN c.Weapon.DamageType ELSE Physical
        rolled == roll + EffectiveAttack(c)
        base == IF crit THEN FloatMulToInt(rolled, c.Stats.CritMult) ELSE rolled
        lg == (IF crit THEN <<Ev("critical hit", id, NoChar)>> ELSE <<>>)
              \o <<Ev("attacks", id, target)>>
    IN  IF ~c.Alive THEN st
        ELSE TakeDamage([st EXCEPT !.log = @ \o lg], target, base, dtype)

SkipsTarget_Never(t) == FALSE

\* UseSkillAt, lines 311 and 333: a target that is not alive is passed over.
SkipsTarget(t) == ~t.Alive

\* UseSkillAt, lines 314-324: the power of the skill on one target.
SkillPower(c, s, jitter, crit) ==
    LET base == IF s.DamageType = Magic
                THEN FloatMulToInt(c.Stats.Magic, s.DamageMultiplier)
                ELSE FloatMulToInt(EffectiveAttack(c), s.DamageMultiplier)
        power == base + jitter
    IN  IF crit THEN FloatMulToInt(power, c.Stats.CritMult) ELSE power

RECURSIVE DamageLoop(_, _, _, _, _, _, _)
DamageLoop(st, id, s, targets, k, jitter, crit) ==
    IF k > Len(targets) THEN st
    ELSE LET t == targets[k]
         IN  IF SkipsTarget(st.chars[t])
             THEN DamageLoop(st, id, s, targets, k + 1, jitter, crit)
             ELSE LET power == SkillPower(st.chars[id], s, jitter[k], crit[k])
                      lg == (IF crit[k] THEN <<Ev("skill crit", id, NoChar)>> ELSE <<>>)
                            \o <<Ev("deals damage", id, t)>>
                      s1 == TakeDamage([st EXCEPT !.log = @ \o lg], t, power, s.DamageType)
                      s2 == IF s.Effect # Nil THEN AddEffect(s1, t, s.Effect) ELSE s1
                 IN  DamageLoop(s2, id, s, targets, k + 1, jitter, crit)

RECURSIVE HealLoop(_, _, _, _, _)
HealLoop(st, id, s, targets, k) ==
    IF k > Len(targets) THEN st
    ELSE LET t == targets[k]
         IN  IF SkipsTarget(st.chars[t])
             THEN HealLoop(st, id, s, targets, k + 1)
             ELSE LET s1 == Heal(st, t, s.HealHP)
                      s2 == [s1 EXCEPT !.log = Append(@, Ev("heals", id, t))]
                      s3 == IF s.Effect # Nil THEN AddEffect(s2, t, s.Effect) ELSE s2
                 IN  HealLoop(s3, id, s, targets, k + 1)

\* i is the Go index (from 0); jitter[k] is rand.Intn(3) - 1 and crit[k] the crit
\* draw for targets[k].
UseSkillAt(st, id, i, targets, jitter, crit) ==
    LET c == st.chars[id]
    IN  IF i < 0 \/ i >= Len(c.Skills)
        THEN [st EXCEPT !.log = Append(@, Ev("invalid skill", id, NoChar))]
        ELSE LET s == c.Skills[i + 1]
             IN  IF ~HasMP(c, s.MPCost)
                 THEN [st EXCEPT !.log = Append(@, Ev("lacks MP", id, NoChar))]
                 ELSE LET s0 == UseMP(st, id, s.MPCost)
                          s1 == [s0 EXCEPT !.log = Append(@, Ev("uses skill", id, NoChar))]
                          s2 == IF s.DamageMultiplier > 0
                                THEN DamageLoop(s1, id, s, targets, 1, jitter, crit)
                                ELSE s1
                      IN  IF s.HealHP > 0 THEN HealLoop(s2, id, s, targets, 1) ELSE s2

RECURSIVE chooseFirstAlive(_, _)
chooseFirstAlive(cs, list) ==
    IF list = <<>> THEN NoChar
    ELSE IF cs[Head(list)].Alive THEN Head(list)
    ELSE chooseFirstAlive(cs, Tail(list))

\* ------------------------------------------------------------ Battle

AllDead_Never(cs, team) == FALSE

AllDead(cs, team) ==
    LET list == IF team = "player" THEN Players ELSE Enemies
    IN  \A k \in 1 .. Len(list) : ~cs[list[k]].Alive

Range(seq) == {seq[k] : k \in 1 .. Len(seq)}

\* The orders of list: the sequences that hold each of its elements once.
Perms(list) ==
    {p \in [1 .. Len(list) -> Range(list)] : Range(p) = Range(list)}

Less_Ascending(cs, a, b) == EffectiveSpeed(cs[a]) < EffectiveSpeed(cs[b])

\* Turn, line 390: the less function handed to sort.Slice.
Less(cs, a, b) == EffectiveSpeed(cs[a]) > EffectiveSpeed(cs[b])

\* sort.Slice(all, less) leaves all in an order in which no element is less than
\* one before it; it is not a stable sort, so among equal elements any order.
SortSlice(cs, list) ==
    {p \in Perms(list) :
        \A i \in 1 .. Len(p) : \A j \in 1 .. Len(p) : i < j => ~Less(cs, p[j], p[i])}

\* Turn, lines 419-425: the targets of the skill the actor has picked.
SkillTargets(cs, actor, s, targets) ==
    LET a == cs[actor]
        first == <<chooseFirstAlive(cs, targets)>>
        self == IF s.HealHP > 0
                   \/ (a.Stats.HP < GoDiv(a.Stats.HPMax, 2) /\ a.Team # "player")
                THEN <<actor>> ELSE first
    IN  IF s.TargetAll THEN targets ELSE self

\* A nil *Character among the targets is dereferenced (t.Alive) as soon as one
\* of UseSkillAt's loops runs.
NilDeref(s, targ) ==
    NoChar \in Range(targ) /\ (s.DamageMultiplier > 0 \/ s.HealHP > 0)

\* ---------------------------------------------------------- rosters
\* The rosters handed to NewBattle. They have the shape of setupBattle's party
\* (a sworded hero with a damage skill, a healer, goblins and an orc) with the
\* numbers scaled down to keep the reachable battles few.

MakeStats(hpMax, mpMax, attack, defense, magic, resist, speed, critRate, critMult) ==
    [HPMax |-> hpMax, HP |-> 0, MPMax |-> mpMax, MP |-> 0, Attack |-> attack,
     Defense |-> defense, Magic |-> magic, Resist |-> resist, Speed |-> speed,
     CritRate |-> critRate, CritMult |-> critMult]

NewCharacter(team, baseStats) ==
    [Team |-> team,
     Stats |-> [baseStats EXCEPT !.HP = baseStats.HPMax, !.MP = baseStats.MPMax],
     Weapon |-> Nil, Armor |-> Nil, Skills |-> <<>>, Effects |-> <<>>, Alive |-> TRUE]

MakeEffect(name, duration, atkMod, defMod, speedMod, dotHP) ==
    [Name |-> name, Duration |-> duration, AtkMod |-> atkMod, DefMod |-> defMod,
     SpeedMod |-> speedMod, DotHP |-> dotHP, Ticks |-> 0]

MakeSkill(name, mpCost, multiplier, dtype, healHP, targetAll, effect) ==
    [Name |-> name, MPCost |-> mpCost, DamageMultiplier |-> multiplier,
     DamageType |-> dtype, HealHP |-> healHP, TargetAll |-> targetAll,
     Effect |-> effect]

MakeWeapon(name, damageMin, damageMax, dtype, attackBonus) ==
    [Name |-> name, DamageMin |-> damageMin, DamageMax |-> damageMax,
     DamageType |-> dtype, AttackBonus |-> attackBonus]

MakeArmor(name, defenseBonus, hpBonus) ==
    [Name |-> name, DefenseBonus |-> defenseBonus, HPBonus |-> hpBonus]

Poison == MakeEffect("poison", 2, 0, 0, -2, 1)
Slow == MakeEffect("slow", 1, 0, -5, -3, 0)
Flash == MakeEffect("flash", 0, 0, 0, 0, 0)

EffectCatalog == {Poison, Slow, Flash}

\* The Duration an effect of this name is attached with.
AttachedDuration(e) == (CHOOSE t \in EffectCatalog : t.Name = e.Name).Duration

Fire == MakeSkill("fire", 1, 4, Magic, 0, FALSE, Nil)
HealSkill == MakeSkill("heal", 1, 0, Magic, 2, FALSE, Nil)
Stab == MakeSkill("stab", 1, 2, Physical, 0, FALSE, Poison)
Mend == MakeSkill("mend", 0, 0, Magic, 1, FALSE, Nil)
Nova == MakeSkill("nova", 2, 2, Magic, 0, TRUE, Nil)
Chorus == MakeSkill("chorus", 1, 0, Magic, 1, TRUE, Slow)

Sword == MakeWeapon("sword", 1, 2, Physical, 1)
Staff == MakeWeapon("staff", 1, 1, Magic, 0)
Dagger == MakeWeapon("dagger", 1, 2, Physical, 0)
Leather == MakeArmor("leather", 1, 1)
Cloth == MakeArmor("cloth", 0, 0)

Setup(c, skills, weapon, armor) ==
    LET cs == [x \in {"c"} |-> [c EXCEPT !.Skills = skills]]
        s0 == [chars |-> cs, log |-> <<>>]
        s1 == IF weapon # Nil THEN EquipWeapon(s0, "c", weapon) ELSE s0
        s2 == IF armor # Nil THEN EquipArmor(s1, "c", armor) ELSE s1
    IN  s2.chars["c"]

Hero == Setup(NewCharacter("player", MakeStats(3, 2, 1, 2, 1, 2, 7, 12, 3)),
              <<Fire>>, Sword, Leather)
Cleric == Setup(NewCharacter("player", MakeStats(3, 2, 0, 1, 1, 3, 5, 5, 3)),
                <<HealSkill, Nova>>, Staff, Nil)
Goblin == Setup(NewCharacter("enemy", MakeStats(3, 2, 1, 1, 1, 0, 6, 6, 3)),
                <<Stab>>, Dagger, Nil)
Orc == Setup(NewCharacter("enemy", MakeStats(4, 0, 2, 4, 0, 1, 4, 8, 3)),
             <<>>, Nil, Nil)
Duelist == Setup(NewCharacter("player", MakeStats(4, 2, 1, 2, 1, 2, 5, 0, 3)),
                 <<Fire, HealSkill>>, Sword, Nil)
Mender(team) == Setup(NewCharacter(team, MakeStats(2, 0, 0, 0, 0, 0, 5, 0, 3)),
                      <<Mend>>, Nil, Nil)

\* A character that has taken amount of pure damage before the battle.
Wound(c, amount) ==
    TakeDamage([chars |-> [x \in {"c"} |-> c], log |-> <<>>], "c", amount, Pure).chars["c"]

Squire == Setup(NewCharacter("player", MakeStats(1, 0, 1, 0, 0, 0, 5, 0, 3)),
                <<>>, Sword, Nil)
Rogue == Setup(NewCharacter("enemy", MakeStats(1, 1, 1, 0, 0, 0, 6, 0, 3)),
               <<HealSkill>>, Dagger, Nil)
Veteran == Setup(NewCharacter("enemy", MakeStats(4, 1, 1, 1, 1, 0, 6, 0, 3)),
                 <<Stab, HealSkill>>, Dagger, Nil)

Bard == Setup(NewCharacter("player", MakeStats(2, 1, 1, 0, 0, 0, 6, 0, 3)),
              <<Chorus>>, Nil, Nil)
Brute == Setup(NewCharacter("enemy", MakeStats(2, 0, 1, 0, 0, 0, 5, 0, 3)),
               <<>>, Nil, Nil)

Roster(players, enemies, cs) == [Players |-> players, Enemies |-> enemies, chars |-> cs]

\* One against one, both at 1 HP of 1, the enemy the faster.
LastHit ==
    Roster(<<"p1">>, <<"e1">>,
           [id \in {"p1", "e1"} |-> IF id = "p1" THEN Squire ELSE Rogue])

\* One against one, both worn down to 1 HP of 4, the enemy the faster.
LastStand ==
    Roster(<<"p1">>, <<"e1">>,
           [id \in {"p1", "e1"} |-> IF id = "p1" THEN Wound(Duelist, 3) ELSE Wound(Veteran, 3)])

Squad ==
    Roster(<<"p1", "p2">>, <<"e1", "e2">>,
           [id \in {"p1", "p2", "e1", "e2"} |->
               CASE id = "p1" -> Hero [] id = "p2" -> Cleric
                 [] id = "e1" -> Orc [] id = "e2" -> Goblin])

Duel ==
    Roster(<<"p1">>, <<"e1">>,
           [id \in {"p1", "e1"} |-> IF id = "p1" THEN Duelist ELSE Goblin])

FreeDuel ==
    Roster(<<"p1">>, <<"e1">>,
           [id \in {"p1", "e1"} |-> IF id = "p1" THEN Mender("player") ELSE Mender("enemy")])

\* One against one: a player whose heal has TargetAll set, a wounded enemy.
Choir ==
    Roster(<<"p1">>, <<"e1">>,
           [id \in {"p1", "e1"} |-> IF id = "p1" THEN Bard ELSE Wound(Brute, 1)])

Rosters == {Squad, Duel, FreeDuel, LastHit, LastStand, Choir}

\* The round counter stops counting at MaxRound (it is only ever logged), so that
\* a battle that goes on for ever has finitely many states.
MaxRound == 3

\* ------------------------------------------------------ Battle.Turn

NewBattle(r) ==
    /\ chars = r.chars /\ Players = r.Players /\ Enemies = r.Enemies
    /\ Round = 0 /\ all = <<>> /\ idx = 0
    /\ call = [op |-> "NewBattle"] /\ log = <<>>

\* Turn, lines 384-391: the round's order is built; the loop is at its first actor.
BeginTurn(caller) ==
    /\ Round' = IF Round < MaxRound THEN Round + 1 ELSE Round
    /\ all' \in SortSlice(chars, Players \o Enemies)
    /\ idx' = 1
    /\ pc' = "turn"
    /\ ret' = caller
    /\ call' = [op |-> "Turn"]
    /\ log' = <<Ev("round", NoChar, NoChar)>>
    /\ UNCHANGED <<chars, Players, Enemies, services>>

\* The draws UseSkillAt makes for each target: rand.Intn(3) - 1 and the crit.
JitterDraws(s, targ) ==
    IF s.DamageMultiplier > 0 THEN [1 .. Len(targ) -> -1 .. 1]
    ELSE {[k \in 1 .. Len(targ) |-> 0]}

SkillCritDraws(c, s, targ) ==
    IF s.DamageMultiplier > 0 THEN [1 .. Len(targ) -> CritDraws(c)]
    ELSE {[k \in 1 .. Len(targ) |-> FALSE]}

EndOfTurn_Repeat(st, actor, act) ==
    \E s3 \in {ApplyEffectsEndTurn(st, actor)} :
        LET over == AllDead(s3.chars, "player") \/ AllDead(s3.chars, "enemy")
        IN  /\ chars' = s3.chars
            /\ log' = s3.log
            /\ call' = act
            /\ pc' = IF over THEN ret ELSE "turn"
            /\ idx' = IF over THEN 0 ELSE idx
            /\ all' = IF over THEN <<>> ELSE all
            /\ UNCHANGED <<Players, Enemies, Round, ret, services>>

\* Turn, lines 441-446, and the for statement's own end: after the actor's action
\* its effects tick, and Turn returns when a side is dead or all is used up.
EndOfTurn(st, actor, act) ==
    \E s3 \in {ApplyEffectsEndTurn(st, actor)} :
        LET over == AllDead(s3.chars, "player") \/ AllDead(s3.chars, "enemy")
            leave == over \/ idx = Len(all)
        IN  /\ chars' = s3.chars
            /\ log' = s3.log
            /\ call' = act
            /\ pc' = IF leave THEN ret ELSE "turn"
            /\ idx' = IF leave THEN 0 ELSE idx + 1
            /\ all' = IF leave THEN <<>> ELSE all
            /\ UNCHANGED <<Players, Enemies, Round, ret, services>>

Act(actor, action, skill, targ) ==
    [op |-> "act", who |-> actor, action |-> action, skill |-> skill, targ |-> targ]

\* Turn, lines 394-396: an actor that is not alive is passed over.
SkipDead ==
    /\ pc = "turn"
    /\ ~chars[all[idx]].Alive
    /\ LET leave == idx = Len(all)
       IN  /\ pc' = IF leave THEN ret ELSE "turn"
           /\ idx' = IF leave THEN 0 ELSE idx + 1
           /\ all' = IF leave THEN <<>> ELSE all
    /\ call' = Act(all[idx], "skip", -1, <<>>)
    /\ log' = <<>>
    /\ UNCHANGED <<chars, Players, Enemies, Round, ret, services>>

\* Turn, lines 398-446: one living actor's turn.
ActorTurn ==
    /\ pc = "turn"
    /\ chars[all[idx]].Alive
    /\ \E actor \in {all[idx]} :
       \E s1 \in {ApplyEffectsStartTurn(
                     [chars |-> chars, log |-> <<Ev("thinking", actor, NoChar)>>], actor)} :
       \E a \in {s1.chars[actor]} :
       \E targets \in {IF a.Team = "player" THEN Enemies ELSE Players} :
       \E trySkill \in (IF Len(a.Skills) > 0 THEN BOOLEAN ELSE {FALSE}) :
       \E skillIdx \in (IF trySkill THEN 0 .. Len(a.Skills) - 1 ELSE {-1}) :
         IF trySkill /\ a.Stats.MP >= a.Skills[skillIdx + 1].MPCost
         THEN \E s \in {a.Skills[skillIdx + 1]} :
              \E targ \in {SkillTargets(s1.chars, actor, s, targets)} :
                IF NilDeref(s, targ)
                THEN /\ pc' = "panic"
                     /\ chars' = UseMP(s1, actor, s.MPCost).chars
                     /\ log' = Append(s1.log, Ev("uses skill", actor, NoChar))
                     /\ call' = Act(actor, "skill", skillIdx, targ)
                     /\ UNCHANGED <<Players, Enemies, Round, all, idx, ret, services>>
                ELSE \E jitter \in JitterDraws(s, targ) :
                     \E crit \in SkillCritDraws(a, s, targ) :
                     \E s2 \in {UseSkillAt(s1, actor, skillIdx, targ, jitter, crit)} :
                       EndOfTurn(s2, actor, Act(actor, "skill", skillIdx, targ))
         ELSE \E target \in {chooseFirstAlive(s1.chars, targets)} :
                IF target # NoChar
                THEN \E roll \in WeaponRolls(a) : \E crit \in CritDraws(a) :
                     \E s2 \in {BasicAttack(s1, actor, target, roll, crit)} :
                       EndOfTurn(s2, actor, Act(actor, "attack", -1, <<target>>))
                ELSE EndOfTurn(s1, actor, Act(actor, "none", -1, <<>>))

\* ------------------------------------------------------- Battle.Run

\* Run, lines 457-461: the line that reports the winner.
Winner(cs) == IF AllDead(cs, "enemy") THEN "Players win!" ELSE "Enemies win!"

\* Run, lines 454-456: another round.
RunTurn ==
    /\ pc = "run"
    /\ ~AllDead(chars, "player") /\ ~AllDead(chars, "enemy")
    /\ BeginTurn("run")

\* Run, lines 457-461: the loop is left and the winner reported.
RunEnd ==
    /\ pc = "run"
    /\ ~(~AllDead(chars, "player") /\ ~AllDead(chars, "enemy"))
    /\ pc' = "done"
    /\ call' = [op |-> "Run"]
    /\ log' = <<Ev(Winner(chars), NoChar, NoChar)>>
    /\ UNCHANGED <<chars, Players, Enemies, Round, all, idx, ret, services>>

Init ==
    /\ \E r \in Rosters : NewBattle(r)
    /\ pc = "run"
    /\ ret = "run"
    /\ ServicesOff

Next == RunTurn \/ SkipDead \/ ActorTurn \/ RunEnd

Spec == Init /\ [][Next]_vars

\* Run is one goroutine that nothing blocks: it takes its next step.
FairSpec == Spec /\ WF_vars(Next)

\* ------------------------------------------- calls on one Character
\* A caller (a test, a command loop) that holds a battle and, between two calls
\* of Turn, calls the methods of one of its characters with inputs of its choice.

Subjects == {"p1"}

DamageTypes == {Physical, Magic, Pure}
DamageAmounts == {-1, 0, 3}
HealAmounts == {0, 1, 3}
MPAmounts == {1}
CallEffects == {Poison, Slow, Flash}
CallArmors == {Leather}

\* A caller attaches at most MaxEffects effects and equips armor only up to an
\* HPMax of MaxHPMax.
MaxEffects == 1
MaxHPMax == 5

Called(st, c) ==
    \E r \in {st} :
        /\ chars' = r.chars /\ log' = r.log /\ call' = c
        /\ UNCHANGED <<Players, Enemies, Round, all, idx, pc, ret, services>>

CallTakeDamage ==
    /\ pc = "idle"
    /\ \E id \in Subjects : \E amount \in DamageAmounts : \E dtype \in DamageTypes :
         Called(TakeDamage([chars |-> chars, log |-> <<>>], id, amount, dtype),
                [op |-> "TakeDamage", who |-> id, amount |-> amount, dtype |-> dtype])

CallHeal ==
    /\ pc = "idle"
    /\ \E id \in Subjects : \E amount \in HealAmounts :
         Called(Heal([chars |-> chars, log |-> <<>>], id, amount),
                [op |-> "Heal", who |-> id, amount |-> amount, hp |-> chars[id].Stats.HP])

CallUseMP ==
    /\ pc = "idle"
    /\ \E id \in Subjects : \E amount \in MPAmounts :
         Called(UseMP([chars |-> chars, log |-> <<>>], id, amount),
                [op |-> "UseMP", who |-> id, amount |-> amount])

CallAddEffect ==
    /\ pc = "idle"
    /\ \E id \in Subjects : \E e \in CallEffects :
         /\ Len(chars[id].Effects) < MaxEffects
         /\ Called(AddEffect([chars |-> chars, log |-> <<>>], id, e),
                   [op |-> "AddEffect", who |-> id, effect |-> e.Name])

CallApplyEffectsStartTurn ==
    /\ pc = "idle"
    /\ \E id \in Subjects :
         Called(ApplyEffectsStartTurn([chars |-> chars, log |-> <<>>], id),
                [op |-> "ApplyEffectsStartTurn", who |-> id])

CallApplyEffectsEndTurn ==
    /\ pc = "idle"
    /\ \E id \in Subjects :
         Called(ApplyEffectsEndTurn([chars |-> chars, log |-> <<>>], id),
                [op |-> "ApplyEffectsEndTurn", who |-> id])

\* hp and hpMax are the character's HP and HPMax when the call is made.
CallEquipArmor ==
    /\ pc = "idle"
    /\ \E id \in Subjects : \E a \in CallArmors :
         /\ chars[id].Stats.HPMax + a.HPBonus <= MaxHPMax
         /\ Called(EquipArmor([chars |-> chars, log |-> <<>>], id, a),
                   [op |-> "EquipArmor", who |-> id, armor |-> a.Name,
                    hp |-> chars[id].Stats.HP, hpMax |-> chars[id].Stats.HPMax])

CallUnequipArmor ==
    /\ pc = "idle"
    /\ \E id \in Subjects :
         Called(UnequipArmor([chars |-> chars, log |-> <<>>], id),
                [op |-> "UnequipArmor", who |-> id])

CallBasicAttack ==
    /\ pc = "idle"
    /\ \E id \in Subjects : \E target \in DOMAIN chars :
       \E roll \in WeaponRolls(chars[id]) : \E crit \in CritDraws(chars[id]) :
         Called(BasicAttack([chars |-> chars, log |-> <<>>], id, target, roll, crit),
                [op |-> "BasicAttack", who |-> id, target |-> target])

\* The caller may pass any index, also one that is no skill's.
CallUseSkillAt ==
    /\ pc = "idle"
    /\ \E id \in Subjects : \E i \in -1 .. Len(chars[id].Skills) :
       \E targ \in {<<"p1">>, <<"e1">>, <<"e1", "p1">>} :
         LET known == i >= 0 /\ i < Len(chars[id].Skills)
             s == chars[id].Skills[i + 1]
         IN  \E jitter \in (IF known THEN JitterDraws(s, targ) ELSE {<<>>}) :
             \E crit \in (IF known THEN SkillCritDraws(chars[id], s, targ) ELSE {<<>>}) :
               Called(UseSkillAt([chars |-> chars, log |-> <<>>], id, i, targ, jitter, crit),
                      [op |-> "UseSkillAt", who |-> id, skill |-> i])

CallTurn == pc = "idle" /\ BeginTurn("idle")

InitCalls ==
    /\ NewBattle(Duel)
    /\ pc = "idle"
    /\ ret = "idle"
    /\ ServicesOff

NextCalls ==
    \/ CallTakeDamage \/ CallHeal \/ CallUseMP \/ CallAddEffect
    \/ CallApplyEffectsStartTurn \/ CallApplyEffectsEndTurn
    \/ CallEquipArmor \/ CallUnequipArmor \/ CallBasicAttack \/ CallUseSkillAt

\* The methods of a Character, called in any order.
SpecCalls == InitCalls /\ [][NextCalls]_vars

NextRounds ==
    \/ CallTakeDamage \/ CallHeal \/ CallApplyEffectsStartTurn
    \/ CallTurn \/ SkipDead \/ ActorTurn

\* Rounds of Turn with damage, heals and damage over time dealt in between.
SpecRounds == InitCalls /\ [][NextRounds]_vars

\* The armors of a caller that changes a character's armor.
Wardrobe == {Leather, Cloth}

\* EquipArmor with any armor of the wardrobe, whatever the character has on.
CallChangeArmor ==
    /\ pc = "idle"
    /\ \E id \in Subjects : \E a \in Wardrobe :
         /\ chars[id].Stats.HPMax + a.HPBonus <= MaxHPMax
         /\ Called(EquipArmor([chars |-> chars, log |-> <<>>], id, a),
                   [op |-> "EquipArmor", who |-> id, armor |-> a.Name,
                    hp |-> chars[id].Stats.HP, hpMax |-> chars[id].Stats.HPMax])

NextArmor == CallChangeArmor \/ CallUnequipArmor \/ CallTakeDamage \/ CallHeal

\* A character whose armor is changed and taken off between blows and heals.
SpecArmor == InitCalls /\ [][NextArmor]_vars

\* ------------------------------------------- Go maps (all programs)

EmptyMap == [k \in {} |-> Off]

MapSet(m, k, v) == [x \in DOMAIN m \cup {k} |-> IF x = k THEN v ELSE m[x]]

MapDelete(m, k) == [x \in DOMAIN m \ {k} |-> m[x]]

\* ---------------------------------------- cart service (ch06/e_cart)
\* A Product is [ID, Price]; a float64 price is a whole number of halves (5 is
\* 2.5), which float64 adds and multiplies exactly. An Item is [Product,
\* Quantity]; s.items maps Product.ID to Item. Every method holds s.mu from its
\* first access of s.items to its return, so each is one step.

NewCartService == [items |-> EmptyMap]

CartService_Add_Replacing(s, p, qty) ==
    IF qty <= 0 THEN [s |-> s, err |-> "quantity must be >= 1"]
    ELSE [s |-> [s EXCEPT !.items = MapSet(@, p.ID, [Product |-> p, Quantity |-> qty])],
          err |-> "nil"]

CartService_Add(s, p, qty) ==
    IF qty <= 0 THEN [s |-> s, err |-> "quantity must be >= 1"]
    ELSE IF p.ID \in DOMAIN s.items
    THEN [s |-> [s EXCEPT !.items[p.ID].Quantity = @ + qty], err |-> "nil"]
    ELSE [s |-> [s EXCEPT !.items = MapSet(@, p.ID, [Product |-> p, Quantity |-> qty])],
          err |-> "nil"]

CartService_Update_Unchecked(s, productID, qty) ==
    IF qty = 0 THEN [s |-> [s EXCEPT !.items = MapDelete(@, productID)], err |-> "nil"]
    ELSE IF productID \in DOMAIN s.items
    THEN [s |-> [s EXCEPT !.items[productID].Quantity = qty], err |-> "nil"]
    ELSE [s |-> s, err |-> "product not found in cart"]

CartService_Update(s, productID, qty) ==
    IF qty < 0 THEN [s |-> s, err |-> "quantity must be >= 0"]
    ELSE IF qty = 0 THEN [s |-> [s EXCEPT !.items = MapDelete(@, productID)], err |-> "nil"]
    ELSE IF productID \in DOMAIN s.items
    THEN [s |-> [s EXCEPT !.items[productID].Quantity = qty], err |-> "nil"]
    ELSE [s |-> s, err |-> "product not found in cart"]

CartService_Remove(s, productID) == [s EXCEPT !.items = MapDelete(@, productID)]

CartService_Clear(s) == [s EXCEPT !.items = EmptyMap]

\* Total's loop: the items are taken in some order and added up.
RECURSIVE TotalLoop(_, _, _)
TotalLoop(items, left, total) ==
    IF left = {} THEN total
    ELSE LET k == CHOOSE x \in left : TRUE
         IN  TotalLoop(items, left \ {k},
                       total + items[k].Quantity * items[k].Product.Price)

CartService_Total(s) == TotalLoop(s.items, DOMAIN s.items, 0)

\* What the callers of the cart service pass: products (two of them with the
\* same ID and different prices) and quantities.
CartProducts ==
    {[ID |-> "p1", Price |-> 5], [ID |-> "p2", Price |-> 2], [ID |-> "p1", Price |-> 3]}
CartIDs == {"p1", "p2", "p3"}
CartQtys == {-1, 0, 1, 2}

\* No caller lets a quantity grow beyond MaxQty.
MaxQty == 3

\* cart.call is the last call, its arguments and what it returned.
CartAdd ==
    \E p \in CartProducts : \E qty \in CartQtys :
        LET r == CartService_Add([items |-> cart.items], p, qty)
        IN  /\ \A id \in DOMAIN r.s.items : r.s.items[id].Quantity <= MaxQty
            /\ cart' = [items |-> r.s.items,
                        call |-> [op |-> "Add", p |-> p, qty |-> qty, err |-> r.err]]
            /\ UNCHANGED <<battle, shell, auth, shop, todo, chat, limiter>>

CartUpdate ==
    \E id \in CartIDs : \E qty \in CartQtys \cup {MaxQty} :
        LET r == CartService_Update([items |-> cart.items], id, qty)
        IN  /\ cart' = [items |-> r.s.items,
                        call |-> [op |-> "Update", id |-> id, qty |-> qty, err |-> r.err]]
            /\ UNCHANGED <<battle, shell, auth, shop, todo, chat, limiter>>

CartRemove ==
    \E id \in CartIDs :
        /\ cart' = [items |-> CartService_Remove([items |-> cart.items], id).items,
                    call |-> [op |-> "Remove", id |-> id]]
        /\ UNCHANGED <<battle, shell, auth, shop, todo, chat, limiter>>

CartClear ==
    /\ cart' = [items |-> CartService_Clear([items |-> cart.items]).items,
                call |-> [op |-> "Clear"]]
    /\ UNCHANGED <<battle, shell, auth, shop, todo, chat, limiter>>

CartTotal ==
    /\ cart' = [cart EXCEPT !.call = [op |-> "Total",
                                      total |-> CartService_Total([items |-> cart.items])]]
    /\ UNCHANGED <<battle, shell, auth, shop, todo, chat, limiter>>

InitCart ==
    /\ cart = [items |-> NewCartService.items, call |-> [op |-> "NewCartService"]]
    /\ shop = Off /\ todo = Off /\ chat = Off /\ limiter = Off
    /\ BattleOff /\ shell = Off /\ auth = Off

NextCart == CartAdd \/ CartUpdate \/ CartRemove \/ CartClear \/ CartTotal

\* The cart service under any sequence of calls of its methods.
SpecCart == InitCart /\ [][NextCart]_vars

\* ------------------------------------------ shop (ch02/dungeon, shop)
\* A Product is [ID, Price, Stock] (Price in halves); ps.items maps ID to Product.
\* The shop's CartService is the code of ch06/e_cart's with int64 keys and
\* CartItem for Item, so the operators above stand for its methods as well.

ProductService_Create(ps, p) ==
    [items |-> MapSet(ps.items, ps.nextID, [p EXCEPT !.ID = ps.nextID]),
     nextID |-> ps.nextID + 1]

\* The three products NewProductService seeds, with stocks scaled down.
NewProductService ==
    LET s0 == [items |-> EmptyMap, nextID |-> 1]
        s1 == ProductService_Create(s0, [ID |-> 0, Price |-> 21, Stock |-> 2])
        s2 == ProductService_Create(s1, [ID |-> 0, Price |-> 16, Stock |-> 1])
    IN  ProductService_Create(s2, [ID |-> 0, Price |-> 24, Stock |-> 1])

\* Update with a patch that names nothing but a stock.
ProductService_Update(ps, id, patch) ==
    IF id \notin DOMAIN ps.items THEN [ps |-> ps, err |-> "not found"]
    ELSE LET cur == ps.items[id]
             c1 == IF patch.Price > 0 THEN [cur EXCEPT !.Price = patch.Price] ELSE cur
             c2 == IF patch.Stock >= 0 THEN [c1 EXCEPT !.Stock = patch.Stock] ELSE c1
         IN  [ps |-> [ps EXCEPT !.items[id] = c2], err |-> "nil"]

ProductService_Delete(ps, id) ==
    IF id \notin DOMAIN ps.items THEN [ps |-> ps, ok |-> FALSE]
    ELSE [ps |-> [ps EXCEPT !.items = MapDelete(@, id)], ok |-> TRUE]

Unavailable_MissingOnly(cartItems, productItems) ==
    {id \in DOMAIN cartItems : id \notin DOMAIN productItems}

\* CreateOrder, lines 1624-1632: the cart items that fail the stock check.
Unavailable(cartItems, productItems) ==
    {id \in DOMAIN cartItems :
        \/ id \notin DOMAIN productItems
        \/ productItems[id].Stock < cartItems[id].Quantity}

\* CreateOrder, lines 1635-1640.
ReduceStock(cartItems, productItems) ==
    [id \in DOMAIN productItems |->
        IF id \in DOMAIN cartItems
        THEN [productItems[id] EXCEPT !.Stock = @ - cartItems[id].Quantity]
        ELSE productItems[id]]

\* What CreateOrder can do: the check loop ranges over the cart in Go's map
\* order, so of several failing items any one may be the one reported.
CreateOrder(c, ps) ==
    LET failing == Unavailable(c.items, ps.items)
    IN  IF failing # {}
        THEN {[cart |-> c, products |-> ps, order |-> [Items |-> EmptyMap, Total |-> 0],
               err |-> IF id \in DOMAIN ps.items THEN "not enough stock" ELSE "not found",
               id |-> id] : id \in failing}
        ELSE {[cart |-> CartService_Clear(c),
               products |-> [ps EXCEPT !.items = ReduceStock(c.items, ps.items)],
               order |-> [Items |-> c.items, Total |-> CartService_Total(c)],
               err |-> "nil", id |-> 0]}

\* The products the shop's callers ask for, one id more than the catalogue has.
ShopIDs == {1, 2, 4}
ShopQtys == {1, 2}
ShopStocks == {0, 1}

\* shop.call is the last call, its arguments and what it returned.
ShopCartAdd ==
    \E id \in ShopIDs \cap DOMAIN shop.products.items : \E qty \in ShopQtys :
        LET r == CartService_Add(shop.cart, shop.products.items[id], qty)
        IN  /\ \A k \in DOMAIN r.s.items : r.s.items[k].Quantity <= MaxQty
            /\ shop' = [shop EXCEPT !.cart = r.s,
                          !.call = [op |-> "Add", id |-> id, qty |-> qty, err |-> r.err]]
            /\ UNCHANGED <<battle, shell, auth, cart, todo, chat, limiter>>

ShopCartRemove ==
    \E id \in ShopIDs :
        /\ shop' = [shop EXCEPT !.cart = CartService_Remove(@, id),
                      !.call = [op |-> "Remove", id |-> id]]
        /\ UNCHANGED <<battle, shell, auth, cart, todo, chat, limiter>>

ShopProductUpdate ==
    \E id \in ShopIDs : \E stock \in ShopStocks :
        LET r == ProductService_Update(shop.products, id, [Price |-> 0, Stock |-> stock])
        IN  /\ shop' = [shop EXCEPT !.products = r.ps,
                          !.call = [op |-> "Update", id |-> id, stock |-> stock, err |-> r.err]]
            /\ UNCHANGED <<battle, shell, auth, cart, todo, chat, limiter>>

ShopProductDelete ==
    \E id \in ShopIDs :
        LET r == ProductService_Delete(shop.products, id)
        IN  /\ shop' = [shop EXCEPT !.products = r.ps,
                          !.call = [op |-> "Delete", id |-> id, ok |-> r.ok]]
            /\ UNCHANGED <<battle, shell, auth, cart, todo, chat, limiter>>

ShopCheckout ==
    \E r \in CreateOrder(shop.cart, shop.products) :
        /\ shop' = [cart |-> r.cart, products |-> r.products,
                    call |-> [op |-> "CreateOrder", order |-> r.order, err |-> r.err,
                              id |-> r.id]]
        /\ UNCHANGED <<battle, shell, auth, cart, todo, chat, limiter>>

InitShop ==
    /\ shop = [cart |-> NewCartService, products |-> NewProductService,
               call |-> [op |-> "NewProductService"]]
    /\ cart = Off /\ todo = Off /\ chat = Off /\ limiter = Off
    /\ BattleOff /\ shell = Off /\ auth = Off

NextShop ==
    ShopCartAdd \/ ShopCartRemove \/ ShopProductUpdate \/ ShopProductDelete \/ ShopCheckout

\* The shop's services and CreateOrder, called in any order.
SpecShop == InitShop /\ [][NextShop]_vars

\* ------------------------------------------- chat (ch07/minichat)
\* chat.messages, chat.capacity and chat.clients are the ChatService's fields and
\* chat.broadcast its channel. chat.senders holds the messages whose goroutine
\* (AddMessage, lines 82-84) has not yet sent to the channel, chat.writers the
\* (conn, message) pairs whose goroutine (run, lines 59-61) has not yet written,
\* and chat.wire[conn] what has been written to conn. chat.added is history: every
\* message AddMessage was called with, in the order of the calls.

\* make(chan Message, 32)
BroadcastCap == 32

NewChatService(capacity) ==
    [messages |-> <<>>, capacity |-> capacity, clients |-> {},
     broadcast |-> <<>>, senders |-> {}, writers |-> {},
     wire |-> EmptyMap, added |-> <<>>]

Evict_Newest(messages) == SubSeq(messages, 1, Len(messages) - 1)

\* s.messages[1:]
Evict(messages) == Tail(messages)

AddMessage(s, m) ==
    [s EXCEPT !.messages = IF Len(s.messages) >= s.capacity
                           THEN Append(Evict(s.messages), m)
                           ELSE Append(s.messages, m),
              !.senders = @ \cup {m},
              !.added = Append(@, m)]

GetMessages(s) == s.messages

RegisterClient(s, conn) ==
    [s EXCEPT !.clients = @ \cup {conn},
              !.wire = IF conn \in DOMAIN @ THEN @ ELSE MapSet(@, conn, <<>>)]

UnregisterClient(s, conn) == [s EXCEPT !.clients = @ \ {conn}]

\* The capacities the service is made with, and what its callers pass.
Capacities == {1, 2}
ChatTexts == {"one", "two"}
Conns == {"c1"}

\* The callers add MaxAdds messages at most.
MaxAdds == 3

\* PostMessageHandler, WSHandler: the ID is the clock's reading, here the number
\* of the call.
ChatAdd ==
    /\ Len(chat.added) < MaxAdds
    /\ \E text \in ChatTexts :
         LET m == [ID |-> Len(chat.added) + 1, Text |-> text]
         IN  chat' = [AddMessage(chat, m) EXCEPT !.call = [op |-> "AddMessage", m |-> m]]
    /\ UNCHANGED <<battle, shell, auth, cart, shop, todo, limiter>>

ChatGet ==
    /\ chat' = [chat EXCEPT !.call = [op |-> "GetMessages", ret |-> GetMessages(chat)]]
    /\ UNCHANGED <<battle, shell, auth, cart, shop, todo, limiter>>

\* A connection is registered once: a client that comes back is a new one.
ChatRegister ==
    /\ \E conn \in Conns \ DOMAIN chat.wire :
         chat' = [RegisterClient(chat, conn) EXCEPT
                    !.call = [op |-> "RegisterClient", conn |-> conn]]
    /\ UNCHANGED <<battle, shell, auth, cart, shop, todo, limiter>>

ChatUnregister ==
    /\ \E conn \in chat.clients :
         chat' = [UnregisterClient(chat, conn) EXCEPT
                    !.call = [op |-> "UnregisterClient", conn |-> conn]]
    /\ UNCHANGED <<battle, shell, auth, cart, shop, todo, limiter>>

\* AddMessage, lines 82-84: a goroutine sends its message to the channel.
ChatSend ==
    /\ Len(chat.broadcast) < BroadcastCap
    /\ \E m \in chat.senders :
         chat' = [chat EXCEPT !.senders = @ \ {m}, !.broadcast = Append(@, m),
                              !.call = [op |-> "send", m |-> m]]
    /\ UNCHANGED <<battle, shell, auth, cart, shop, todo, limiter>>

\* run, lines 55-64: a message is received and a writer started for each client.
ChatRun ==
    /\ chat.broadcast # <<>>
    /\ LET msg == Head(chat.broadcast)
       IN  chat' = [chat EXCEPT !.broadcast = Tail(@),
                                !.writers = @ \cup {<<c, msg>> : c \in chat.clients},
                                !.call = [op |-> "run", m |-> msg]]
    /\ UNCHANGED <<battle, shell, auth, cart, shop, todo, limiter>>

\* run, lines 59-61: a writer writes its message to its connection; the write
\* fails on a connection that UnregisterClient has closed.
ChatWrite ==
    /\ \E w \in chat.writers :
         chat' = [chat EXCEPT !.writers = @ \ {w},
                              !.wire[w[1]] = IF w[1] \in chat.clients
                                             THEN Append(@, w[2]) ELSE @,
                              !.call = [op |-> "WriteJSON", conn |-> w[1], m |-> w[2]]]
    /\ UNCHANGED <<battle, shell, auth, cart, shop, todo, limiter>>

InitChat ==
    /\ \E capacity \in Capacities :
         chat = [f \in DOMAIN NewChatService(capacity) \cup {"call"} |->
                    IF f = "call" THEN [op |-> "NewChatService"]
                    ELSE NewChatService(capacity)[f]]
    /\ cart = Off /\ shop = Off /\ todo = Off /\ limiter = Off
    /\ BattleOff /\ shell = Off /\ auth = Off

NextChat ==
    ChatAdd \/ ChatGet \/ ChatRegister \/ ChatUnregister \/ ChatSend \/ ChatRun \/ ChatWrite

\* The chat service: its callers and its goroutines, interleaved in any way.
SpecChat == InitChat /\ [][NextChat]_vars

\* ------------------------------------ todo service (ch02/dungeon, todo)
\* A string is the sequence of its characters; a Todo is [ID, Title, Done] (Body
\* and the two times play no part in what follows); s.items maps ID to Todo.
\* Every method holds s.mu while it works on s.items, so each is one step.

RECURSIVE TrimLeft(_)
TrimLeft(str) == IF str # <<>> /\ Head(str) = " " THEN TrimLeft(Tail(str)) ELSE str

RECURSIVE TrimRight(_)
TrimRight(str) ==
    IF str # <<>> /\ str[Len(str)] = " " THEN TrimRight(SubSeq(str, 1, Len(str) - 1))
    ELSE str

\* strings.TrimSpace
TrimSpace(str) == TrimRight(TrimLeft(str))

\* Todo{}
ZeroTodo == [ID |-> 0, Title |-> <<>>, Done |-> FALSE]

NewTodoService(limit) == [items |-> EmptyMap, nextID |-> 1, limit |-> limit]

Advance_Stuck(nextID) == nextID

\* s.nextID++
Advance(nextID) == nextID + 1

TodoService_Add(s, title) ==
    IF TrimSpace(title) = <<>> THEN [s |-> s, t |-> ZeroTodo, err |-> "title required"]
    ELSE IF s.limit > 0 /\ Cardinality(DOMAIN s.items) >= s.limit
    THEN [s |-> s, t |-> ZeroTodo, err |-> "limit reached"]
    ELSE LET t == [ID |-> s.nextID, Title |-> TrimSpace(title), Done |-> FALSE]
         IN  [s |-> [s EXCEPT !.nextID = Advance(@), !.items = MapSet(@, s.nextID, t)],
              t |-> t, err |-> "nil"]

TodoService_Get(s, id) ==
    IF id \in DOMAIN s.items THEN [t |-> s.items[id], ok |-> TRUE]
    ELSE [t |-> ZeroTodo, ok |-> FALSE]

\* Update with a title and no body.
TodoService_Update(s, id, title) ==
    IF id \notin DOMAIN s.items THEN [s |-> s, t |-> ZeroTodo, err |-> "not found"]
    ELSE IF TrimSpace(title) = <<>> THEN [s |-> s, t |-> ZeroTodo, err |-> "title required"]
    ELSE [s |-> [s EXCEPT !.items[id].Title = TrimSpace(title)],
          t |-> [s.items[id] EXCEPT !.Title = TrimSpace(title)], err |-> "nil"]

TodoService_Delete(s, id) ==
    IF id \notin DOMAIN s.items THEN [s |-> s, ok |-> FALSE]
    ELSE [s |-> [s EXCEPT !.items = MapDelete(@, id)], ok |-> TRUE]

TodoService_Toggle(s, id) ==
    IF id \notin DOMAIN s.items THEN [s |-> s, t |-> ZeroTodo, err |-> "not found"]
    ELSE [s |-> [s EXCEPT !.items[id].Done = ~@],
          t |-> [s.items[id] EXCEPT !.Done = ~@], err |-> "nil"]

TodoService_Clear(s) == [s EXCEPT !.items = EmptyMap, !.nextID = 1]

\* The limits the service is made with (0 is no limit), and what callers pass.
Limits == {0, 2}
Titles == {<<>>, <<" ">>, <<"a">>, <<" ", "b", " ">>}

\* The callers stop adding when the next id would pass MaxTodoID.
MaxTodoID == 3
TodoIDs == 0 .. MaxTodoID

Service(t) == [items |-> t.items, nextID |-> t.nextID, limit |-> t.limit]

Returned(s, c) ==
    /\ todo' = [items |-> s.items, nextID |-> s.nextID, limit |-> s.limit, call |-> c]
    /\ UNCHANGED <<battle, shell, auth, cart, shop, chat, limiter>>

\* todo.call is the last call, its arguments and what it returned.
TodoAdd ==
    /\ todo.nextID <= MaxTodoID
    /\ \E title \in Titles :
         LET r == TodoService_Add(Service(todo), title)
         IN  Returned(r.s, [op |-> "Add", title |-> title, t |-> r.t, err |-> r.err])

TodoGet ==
    \E id \in TodoIDs :
        LET r == TodoService_Get(Service(todo), id)
        IN  Returned(Service(todo), [op |-> "Get", id |-> id, t |-> r.t, ok |-> r.ok])

TodoUpdate ==
    \E id \in TodoIDs : \E title \in Titles :
        LET r == TodoService_Update(Service(todo), id, title)
        IN  Returned(r.s, [op |-> "Update", id |-> id, title |-> title, err |-> r.err])

TodoDelete ==
    \E id \in TodoIDs :
        LET r == TodoService_Delete(Service(todo), id)
        IN  Returned(r.s, [op |-> "Delete", id |-> id, ok |-> r.ok])

TodoToggle ==
    \E id \in TodoIDs :
        LET r == TodoService_Toggle(Service(todo), id)
        IN  Returned(r.s, [op |-> "Toggle", id |-> id, err |-> r.err])

TodoClear == Returned(TodoService_Clear(Service(todo)), [op |-> "Clear"])

InitTodo ==
    /\ \E limit \in Limits :
         todo = [items |-> EmptyMap, nextID |-> NewTodoService(limit).nextID,
                 limit |-> limit, call |-> [op |-> "NewTodoService"]]
    /\ cart = Off /\ shop = Off /\ chat = Off /\ limiter = Off
    /\ BattleOff /\ shell = Off /\ auth = Off

NextTodo == TodoAdd \/ TodoGet \/ TodoUpdate \/ TodoDelete \/ TodoToggle \/ TodoClear

\* The todo service under any sequence of calls of its methods.
SpecTodo == InitTodo /\ [][NextTodo]_vars

\* ------------------------------------ rate limiter (unnamed/part_005)
\* Time is a clock of whole ticks; rl.requests maps an ip to the sequence of the
\* times recorded for it. Each request is a goroutine that calls allow for its
\* client's ip: it takes rl.mu, reads the clock and filters, decides, and gives
\* rl.mu back on return. The clock may advance between any two of these steps.

\* t.After(cutoff)
After(t, cutoff) == t > cutoff

RECURSIVE filterRecent(_, _, _)
filterRecent(times, now, window) ==
    IF times = <<>> THEN <<>>
    ELSE LET rest == filterRecent(Tail(times), now, window)
         IN  IF After(Head(times), now - window) THEN <<Head(times)>> \o rest ELSE rest

newRateLimiter(max, window) ==
    [requests |-> EmptyMap, mu |-> "free", max |-> max, window |-> window]

\* rl.requests[ip], the nil slice when the ip has no entry.
Requests(rl, ip) == IF ip \in DOMAIN rl.requests THEN rl.requests[ip] ELSE <<>>

MutexFree_Always(rl) == TRUE

\* rl.mu.Lock() returns only when no one holds the mutex.
MutexFree(rl) == rl.mu = "free"

\* The limiter of the model: RateMax calls in RateWindow ticks, two client ips,
\* two requests at a time, and a clock that stops at MaxClock.
RateMax == 2
RateWindow == 2
MaxClock == 3
IPs == {"a", "b"}
Callers == {"g1", "g2"}

Idle == [pc |-> "idle"]

\* limiter.granted is the history of the times of the calls that returned
\* true, per ip; limiter.call is the last return.
AllowLock(g) ==
    /\ limiter.procs[g].pc = "idle"
    /\ MutexFree(limiter)
    /\ \E ip \in IPs :
         limiter' = [limiter EXCEPT !.mu = g, !.procs[g] = [pc |-> "now", ip |-> ip]]
    /\ UNCHANGED <<battle, shell, auth, cart, shop, todo, chat>>

AllowNow(g) ==
    /\ limiter.procs[g].pc = "now"
    /\ LET ip == limiter.procs[g].ip
           now == limiter.clock
       IN  limiter' = [limiter EXCEPT !.procs[g] =
               [pc |-> "decide", ip |-> ip, now |-> now,
                reqs |-> filterRecent(Requests(limiter, ip), now, limiter.window)]]
    /\ UNCHANGED <<battle, shell, auth, cart, shop, todo, chat>>

AllowReturn(g) ==
    /\ limiter.procs[g].pc = "decide"
    /\ LET me == limiter.procs[g]
       IN  IF Len(me.reqs) >= limiter.max
           THEN limiter' = [limiter EXCEPT !.mu = "free", !.procs[g] = Idle,
                                !.call = [ip |-> me.ip, now |-> me.now, ok |-> FALSE]]
           ELSE limiter' = [limiter EXCEPT
                                !.requests = MapSet(@, me.ip, Append(me.reqs, me.now)),
                                !.granted[me.ip] = Append(@, me.now),
                                !.mu = "free", !.procs[g] = Idle,
                                !.call = [ip |-> me.ip, now |-> me.now, ok |-> TRUE]]
    /\ UNCHANGED <<battle, shell, auth, cart, shop, todo, chat>>

ClockTick ==
    /\ limiter.clock < MaxClock
    /\ limiter' = [limiter EXCEPT !.clock = @ + 1]
    /\ UNCHANGED <<battle, shell, auth, cart, shop, todo, chat>>

InitLimiter ==
    /\ LET rl == newRateLimiter(RateMax, RateWindow)
       IN  limiter = [requests |-> rl.requests, mu |-> rl.mu, max |-> rl.max,
                      window |-> rl.window, clock |-> 0,
                      procs |-> [g \in Callers |-> Idle],
                      granted |-> [ip \in IPs |-> <<>>],
                      call |-> [ip |-> "", now |-> 0, ok |-> TRUE]]
    /\ cart = Off /\ shop = Off /\ todo = Off /\ chat = Off
    /\ BattleOff /\ shell = Off /\ auth = Off

NextLimiter ==
    \/ ClockTick
    \/ \E g \in Callers : AllowLock(g) \/ AllowNow(g) \/ AllowReturn(g)

\* Concurrent requests through one rate limiter while time passes.
SpecLimiter == InitLimiter /\ [][NextLimiter]_vars

\* ------------------------------------ web console (ch05/WebCMD)
\* A directory is the sequence of the names on its path. shell.currentDir and
\* shell.dirStack are the package's variables of these names, shell.dirMu and
\* shell.mu say which goroutine holds dirMu and the Shell's mu. Every command
\* runs in a goroutine of its own (go shell.Run); the pages and /complete are
\* served by other goroutines. shell.access is the last access to currentDir or
\* dirStack: who, what, and whether that goroutine held dirMu.

Root == <<>>
Home == <<"home">>

\* What a read of a string may give while another goroutine assigns it.
Torn == <<"?">>

\* filepath.Dir
Dir(path) == IF path = <<>> THEN <<>> ELSE SubSeq(path, 1, Len(path) - 1)

\* handleCD: the directory the command leaves in currentDir; current is the
\* directory Run read before it.
handleCD(arg, current) ==
    CASE arg.kind = "home" -> Home
      [] arg.kind = "root" -> Root
      [] arg.kind = "abs" -> arg.path
      [] arg.kind = "up" -> Dir(current)
      [] OTHER -> current \o arg.path

\* A read of currentDir: its value, or, when a handleCD is in the middle of its
\* assignments, the old value, the new one or a torn one.
ReadCurrentDir(sh) ==
    IF sh.writing = <<>> THEN {sh.currentDir}
    ELSE {sh.currentDir, sh.writing[1], Torn}

Access(sh, g, variable, kind) ==
    [who |-> g, variable |-> variable, kind |-> kind, held |-> sh.dirMu = g]

\* The commands typed, the goroutines that run them, and the goroutines that
\* serve a page, a prompt or /complete. The users do not go deeper than
\* MaxDepth names nor push more than MaxStack directories.
Commands ==
    {[op |-> "cd", arg |-> [kind |-> "home"]],
     [op |-> "cd", arg |-> [kind |-> "up"]],
     [op |-> "cd", arg |-> [kind |-> "root"]],
     [op |-> "cd", arg |-> [kind |-> "rel", path |-> <<"a">>]],
     [op |-> "pushd", arg |-> [kind |-> "abs", path |-> <<"a">>]],
     [op |-> "popd"]}
Runners == {"g1", "g2"}
Readers == {"r1"}
MaxDepth == 2
MaxStack == 1

Shelled(sh) == shell' = sh /\ UNCHANGED <<battle, cart, shop, todo, chat, limiter, auth>>

\* Run, lines 64-67: the command's goroutine has s.mu and waits for dirMu.
ShellRun(g) ==
    /\ shell.procs[g].pc = "idle"
    /\ shell.mu = "free"
    /\ \E cmd \in Commands :
         /\ cmd.op = "cd" /\ cmd.arg.kind = "rel" => Len(shell.currentDir) < MaxDepth
         /\ cmd.op = "pushd" => Len(shell.dirStack) < MaxStack
         /\ Shelled([shell EXCEPT !.mu = g,
                                  !.procs[g] = [pc |-> "dir.lock", cmd |-> cmd]])

\* dirMu.Lock() of Run (67), handlePushd (228), handlePopd (236), sendPrompt (153).
DirLock(g) ==
    /\ shell.procs[g].pc \in {"dir.lock", "pushd.lock", "popd.lock", "prompt.lock"}
    /\ shell.dirMu = "free"
    /\ Shelled([shell EXCEPT
           !.dirMu = g,
           !.procs[g].pc = CASE @ = "dir.lock" -> "dir.in" [] @ = "pushd.lock" -> "pushd.in"
                             [] @ = "popd.lock" -> "popd.in" [] OTHER -> "prompt.in"])

\* Run, lines 68-89: dir is read, dirMu given back, the command told apart.
RunReadDir(g) ==
    /\ shell.procs[g].pc = "dir.in"
    /\ \E dir \in ReadCurrentDir(shell) :
         Shelled([shell EXCEPT
             !.dirMu = "free",
             !.access = Access(shell, g, "currentDir", "read"),
             !.procs[g] = [pc |-> CASE @.cmd.op = "cd" -> "cd.write"
                                    [] @.cmd.op = "pushd" -> "pushd.lock"
                                    [] OTHER -> "popd.lock",
                           cmd |-> @.cmd, dir |-> dir]])

\* handlePushd, lines 229-230.
PushdPush(g) ==
    /\ shell.procs[g].pc = "pushd.in"
    /\ \E dir \in ReadCurrentDir(shell) :
         Shelled([shell EXCEPT
             !.dirStack = Append(@, dir),
             !.dirMu = "free",
             !.access = Access(shell, g, "dirStack", "write"),
             !.procs[g].pc = "cd.write"])

\* handleCD, lines 173-223: the first assignment to currentDir ...
HandleCDWrite(g) ==
    /\ shell.procs[g].pc = "cd.write"
    /\ Shelled([shell EXCEPT
           !.writing = <<handleCD(shell.procs[g].cmd.arg, shell.procs[g].dir)>>,
           !.access = Access(shell, g, "currentDir", "write"),
           !.procs[g].pc = "cd.end"])

\* ... and the last.
HandleCDEnd(g) ==
    /\ shell.procs[g].pc = "cd.end"
    /\ Shelled([shell EXCEPT
           !.currentDir = shell.writing[1],
           !.writing = <<>>,
           !.access = Access(shell, g, "currentDir", "write"),
           !.procs[g].pc = "prompt.lock"])

\* handlePopd, lines 237-245.
PopdPop(g) ==
    /\ shell.procs[g].pc = "popd.in"
    /\ IF shell.dirStack = <<>>
       THEN Shelled([shell EXCEPT
                !.dirMu = "free",
                !.access = Access(shell, g, "dirStack", "read"),
                !.procs[g].pc = "prompt.lock"])
       ELSE Shelled([shell EXCEPT
                !.currentDir = shell.dirStack[Len(shell.dirStack)],
                !.dirStack = SubSeq(@, 1, Len(@) - 1),
                !.dirMu = "free",
                !.access = Access(shell, g, "currentDir", "write"),
                !.procs[g].pc = "prompt.lock"])

\* sendPrompt, lines 154-156, and Run's return, which gives s.mu back.
SendPrompt(g) ==
    /\ shell.procs[g].pc = "prompt.in"
    /\ \E dir \in ReadCurrentDir(shell) :
         Shelled([shell EXCEPT
             !.dirMu = "free",
             !.mu = "free",
             !.access = Access(shell, g, "currentDir", "read"),
             !.seen = dir,
             !.procs[g] = Idle])

\* dirMu.Lock() of a page (264, 279), of /complete (321), of the prompt sent for
\* an empty command (295).
ReaderLock(r) ==
    /\ shell.procs[r].pc = "idle"
    /\ shell.dirMu = "free"
    /\ Shelled([shell EXCEPT !.dirMu = r, !.procs[r] = [pc |-> "read.in"]])

\* The read and dirMu.Unlock() that follow (265-266, 280-281, 322-323).
ReaderRead(r) ==
    /\ shell.procs[r].pc = "read.in"
    /\ \E dir \in ReadCurrentDir(shell) :
         Shelled([shell EXCEPT
             !.dirMu = "free",
             !.access = Access(shell, r, "currentDir", "read"),
             !.seen = dir,
             !.procs[r] = Idle])

InitShell ==
    /\ shell = [currentDir |-> Root, dirStack |-> <<>>, dirMu |-> "free", mu |-> "free",
                writing |-> <<>>, seen |-> Root,
                procs |-> [g \in Runners \cup Readers |-> Idle],
                access |-> [who |-> "main", variable |-> "currentDir",
                            kind |-> "write", held |-> TRUE]]
    /\ cart = Off /\ shop = Off /\ todo = Off /\ chat = Off /\ limiter = Off /\ auth = Off
    /\ BattleOff

NextShell ==
    \/ \E g \in Runners :
         \/ ShellRun(g) \/ DirLock(g) \/ RunReadDir(g) \/ PushdPush(g)
         \/ HandleCDWrite(g) \/ HandleCDEnd(g) \/ PopdPop(g) \/ SendPrompt(g)
    \/ \E r \in Readers : ReaderLock(r) \/ ReaderRead(r)

\* The console with commands in flight and pages and completions being served.
SpecShell == InitShell /\ [][NextShell]_vars

\* ------------------------------------ auth server (ch02/dungeon, auth)
\* A refresh token is a number, the n-th uuid.NewString() of the server;
\* auth.refreshTokens is the store's map from token to the user it belongs to,
\* auth.expired the tokens whose ExpiresAt has passed. Every method of the
\* store holds s.mu for its whole body and is one step; a handler is a
\* goroutine that calls them one after the other. auth.accepted counts, per
\* token, the /refresh requests that presented it and were answered 200.

AuthStore_StoreRefreshToken(refreshTokens, token, userID) ==
    MapSet(refreshTokens, token, [Token |-> token, UserID |-> userID])

AuthStore_GetRefreshToken(refreshTokens, token) ==
    IF token \in DOMAIN refreshTokens THEN [rt |-> refreshTokens[token], ok |-> TRUE]
    ELSE [rt |-> [Token |-> 0, UserID |-> ""], ok |-> FALSE]

AuthStore_DeleteRefreshToken(refreshTokens, token) == MapDelete(refreshTokens, token)

\* The server issues at most MaxTokens refresh tokens; two requests are served
\* at a time.
MaxTokens == 4
Handlers == {"h1", "h2"}
AuthUsers == {"u1"}

Authed(a) == auth' = a /\ UNCHANGED <<battle, cart, shop, todo, chat, limiter, shell>>

\* handleLogin, lines 2722-2744, for a user that gives its password.
AuthLogin ==
    /\ auth.nextToken <= MaxTokens
    /\ \E u \in AuthUsers :
         Authed([auth EXCEPT
             !.refreshTokens = AuthStore_StoreRefreshToken(@, auth.nextToken, u),
             !.nextToken = @ + 1,
             !.resp = [op |-> "login", status |-> 200, token |-> auth.nextToken]])

\* handleLogout, lines 2823-2826, with a token and without all_devices.
AuthLogout ==
    \E token \in 1 .. auth.nextToken - 1 :
        Authed([auth EXCEPT
            !.refreshTokens = AuthStore_DeleteRefreshToken(@, token),
            !.resp = [op |-> "logout", status |-> 200, token |-> token]])

\* Time passes the ExpiresAt of a token.
AuthExpire ==
    \E token \in DOMAIN auth.refreshTokens \ auth.expired :
        Authed([auth EXCEPT !.expired = @ \cup {token}])

\* handleRefresh, lines 2756-2769: the token of the request is looked up.
RefreshGet(h) ==
    /\ auth.procs[h].pc = "idle"
    /\ auth.nextToken <= MaxTokens
    /\ \E token \in 0 .. auth.nextToken - 1 :
         LET r == AuthStore_GetRefreshToken(auth.refreshTokens, token)
         IN  IF token = 0
             THEN Authed([auth EXCEPT
                      !.resp = [op |-> "refresh", status |-> 400, token |-> token]])
             ELSE IF ~r.ok \/ token \in auth.expired
             THEN Authed([auth EXCEPT
                      !.resp = [op |-> "refresh", status |-> 401, token |-> token]])
             ELSE Authed([auth EXCEPT
                      !.procs[h] = [pc |-> "delete", token |-> token, rt |-> r.rt]])

\* handleRefresh, lines 2770-2776: the user is found, the token deleted.
RefreshDelete(h) ==
    /\ auth.procs[h].pc = "delete"
    /\ Authed([auth EXCEPT
           !.refreshTokens = AuthStore_DeleteRefreshToken(@, auth.procs[h].token),
           !.procs[h].pc = "store"])

\* handleRefresh, lines 2777-2791: a new token is stored and sent with 200.
RefreshStore(h) ==
    /\ auth.procs[h].pc = "store"
    /\ LET me == auth.procs[h]
       IN  Authed([auth EXCEPT
               !.refreshTokens = AuthStore_StoreRefreshToken(@, auth.nextToken, me.rt.UserID),
               !.nextToken = @ + 1,
               !.accepted[me.token] = @ + 1,
               !.procs[h] = Idle,
               !.resp = [op |-> "refresh", status |-> 200, token |-> me.token,
                         new |-> auth.nextToken]])

\* One user has logged in.
InitAuth ==
    /\ auth = [refreshTokens |-> AuthStore_StoreRefreshToken(EmptyMap, 1, "u1"),
               expired |-> {}, nextToken |-> 2,
               procs |-> [h \in Handlers |-> Idle],
               accepted |-> [t \in 1 .. MaxTokens + 2 |-> 0],
               resp |-> [op |-> "login", status |-> 200, token |-> 1]]
    /\ cart = Off /\ shop = Off /\ todo = Off /\ chat = Off /\ limiter = Off /\ shell = Off
    /\ BattleOff

NextAuth ==
    \/ AuthLogin \/ AuthLogout \/ AuthExpire
    \/ \E h \in Handlers : RefreshGet(h) \/ RefreshDelete(h) \/ RefreshStore(h)

\* The auth server with requests served concurrently.
SpecAuth == InitAuth /\ [][NextAuth]_vars

\* ------------------------- shop, concurrent checkouts (ch02/dungeon, shop)
\* The shop with its two mutexes spelled out: shop.pmu is who holds
\* products.mu, shop.cmu[c] who holds the mutex of cart c. A method of a
\* service takes the mutex of its service for its whole body and is one step,
\* taken when the mutex is free; CreateOrder is a goroutine that takes
\* products.mu, then cart.mu, checks, deducts and gives both back on return.
\* shop.call is the last return of CreateOrder.

ProductsMuFree_Always(pmu) == TRUE

\* products.mu.Lock() returns only when no one holds the mutex.
ProductsMuFree(pmu) == pmu = "free"

CartIDsOf == {"c1", "c2"}
Buyers == {"b1", "b2"}
OrderIDs == {1, 2}
OrderQtys == {-1, 1, 2}

\* The buyers keep at most MaxOrderQty of a product in a cart.
MaxOrderQty == 1

Ordered(s) == shop' = s /\ UNCHANGED <<battle, cart, todo, chat, limiter, shell, auth>>

\* cart.Add(p, qty) with a product of the catalogue.
OrdersCartAdd ==
    \E c \in CartIDsOf : \E id \in OrderIDs \cap DOMAIN shop.products.items :
    \E qty \in OrderQtys :
        LET r == CartService_Add(shop.carts[c], shop.products.items[id], qty)
        IN  /\ shop.cmu[c] = "free"
            /\ \A k \in DOMAIN r.s.items : r.s.items[k].Quantity <= MaxOrderQty
            /\ Ordered([shop EXCEPT !.carts[c] = r.s])

\* products.Update(id, patch) with a patch that names a stock.
OrdersProductUpdate ==
    \E id \in OrderIDs : \E stock \in {-1} \cup ShopStocks :
        LET r == ProductService_Update(shop.products, id, [Price |-> 0, Stock |-> stock])
        IN  /\ ProductsMuFree(shop.pmu)
            /\ Ordered([shop EXCEPT !.products = r.ps])

\* CreateOrder, line 1616.
OrderLockProducts(b) ==
    /\ shop.procs[b].pc = "idle"
    /\ ProductsMuFree(shop.pmu)
    /\ \E c \in CartIDsOf :
         Ordered([shop EXCEPT !.pmu = b, !.procs[b] = [pc |-> "cart.lock", cart |-> c]])

\* CreateOrder, line 1617.
OrderLockCart(b) ==
    /\ shop.procs[b].pc = "cart.lock"
    /\ shop.cmu[shop.procs[b].cart] = "free"
    /\ Ordered([shop EXCEPT !.cmu[shop.procs[b].cart] = b, !.procs[b].pc = "check"])

\* CreateOrder, lines 1624-1632: the stock check; on failure the return, which
\* gives both mutexes back.
OrderCheck(b) ==
    /\ shop.procs[b].pc = "check"
    /\ LET c == shop.procs[b].cart
           failing == Unavailable(shop.carts[c].items, shop.products.items)
       IN  IF failing # {}
           THEN Ordered([shop EXCEPT !.pmu = "free", !.cmu[c] = "free", !.procs[b] = Idle,
                            !.call = [op |-> "CreateOrder", cart |-> c, err |-> "failed"]])
           ELSE Ordered([shop EXCEPT !.procs[b].pc = "reduce"])

\* CreateOrder, lines 1635-1659: the deduction, the order, the cleared cart and
\* the return.
OrderReduce(b) ==
    /\ shop.procs[b].pc = "reduce"
    /\ LET c == shop.procs[b].cart
       IN  Ordered([shop EXCEPT
               !.products.items = ReduceStock(shop.carts[c].items, @),
               !.carts[c] = CartService_Clear(@),
               !.pmu = "free", !.cmu[c] = "free", !.procs[b] = Idle,
               !.call = [op |-> "CreateOrder", cart |-> c, err |-> "nil"]])

InitOrders ==
    /\ shop = [products |-> NewProductService,
               carts |-> [c \in CartIDsOf |-> NewCartService],
               pmu |-> "free", cmu |-> [c \in CartIDsOf |-> "free"],
               procs |-> [b \in Buyers |-> Idle],
               call |-> [op |-> "NewProductService", cart |-> "", err |-> "nil"]]
    /\ cart = Off /\ todo = Off /\ chat = Off /\ limiter = Off /\ shell = Off /\ auth = Off
    /\ BattleOff

NextOrders ==
    \/ OrdersCartAdd \/ OrdersProductUpdate
    \/ \E b \in Buyers :
         OrderLockProducts(b) \/ OrderLockCart(b) \/ OrderCheck(b) \/ OrderReduce(b)

\* Checkouts of two carts by two goroutines, with carts filled and stocks set
\* in between.
SpecOrders == InitOrders /\ [][NextOrders]_vars

\* ------------------------------------------------------------ claims

Min(a, b) == IF a < b THEN a ELSE b
Max(a, b) == IF a > b THEN a ELSE b

\* C1: after any sequence of TakeDamage (any amount, any type), Heal
\* (amount >= 0), start-of-turn damage over time and rounds of Turn, every
\* combatant has 0 <= HP <= HPMax.
C1_HPWithinBounds ==
    \A id \in DOMAIN chars :
        0 <= chars[id].Stats.HP /\ chars[id].Stats.HP <= chars[id].Stats.HPMax

\* A heal of 3 that the clamp cut short, after rounds have been fought.
C1_Witness ==
    /\ Round >= 2
    /\ call.op = "Heal" /\ call.amount = 3
    /\ call.hp > 0 /\ call.hp + 3 > chars[call.who].Stats.HPMax
    /\ chars[call.who].Stats.HP = chars[call.who].Stats.HPMax

PaidSkills ==
    \A id \in DOMAIN chars : \A k \in 1 .. Len(chars[id].Skills) :
        chars[id].Skills[k].MPCost >= 1

\* C2 as stated: every battle ends, whatever the draws.
C2_Terminates == <>(pc = "done")

\* C2, amended: a battle in which every skill costs at least 1 MP ends, whatever
\* the draws.
C2_PaidSkillsTerminate == PaidSkills => <>(pc = "done")

\* A battle of paid skills that has ended, skills having been used in it.
C2_Witness ==
    /\ pc = "done" /\ PaidSkills
    /\ \E id \in DOMAIN chars : chars[id].Stats.MP < chars[id].Stats.MPMax

\* C3: when Run ends with both rosters dead the enemies are reported winner, and
\* the players are reported winner only when the enemies are all dead and the
\* players are not.
C3_TieGoesToEnemies ==
    pc = "done" =>
        /\ (AllDead(chars, "player") /\ AllDead(chars, "enemy")
               => log = <<Ev("Enemies win!", NoChar, NoChar)>>)
        /\ (log = <<Ev("Players win!", NoChar, NoChar)>>
               => AllDead(chars, "enemy") /\ ~AllDead(chars, "player"))

\* The scenario of the spec: a skill of cost 8 tried at 5 MP.
C4_Example ==
    LET c == [Cleric EXCEPT !.Stats.MP = 5, !.Skills = <<[HealSkill EXCEPT !.MPCost = 8]>>]
        st == [chars |-> [id \in {"c"} |-> [c EXCEPT !.Stats.HP = 1]], log |-> <<>>]
        r == UseSkillAt(st, "c", 0, <<"c">>, <<0>>, <<FALSE>>)
    IN  r.chars = st.chars /\ r.log = <<Ev("lacks MP", "c", NoChar)>>

C4_Step ==
    LET who == call'.who
        i == call'.skill
    IN  (/\ call'.op = "UseSkillAt"
         /\ i >= 0 /\ i < Len(chars[who].Skills)
         /\ chars[who].Skills[i + 1].MPCost > chars[who].Stats.MP)
        => chars' = chars /\ log' = <<Ev("lacks MP", who, NoChar)>>

\* C4: UseSkillAt with a skill that costs more MP than the actor has changes no
\* character (MP, HP, Alive, Effects of all are as before) and logs one line,
\* the failed attempt.
C4_NoMPNoChange == [][C4_Step /\ C4_Example]_vars

\* A wounded character with no MP left has tried to use a skill.
C4_Witness ==
    /\ call.op = "UseSkillAt" /\ call.skill = 1
    /\ log = <<Ev("lacks MP", call.who, NoChar)>>
    /\ chars[call.who].Stats.MP = 0
    /\ chars[call.who].Stats.HP < chars[call.who].Stats.HPMax

\* C5: a combatant that is not alive has HP 0, and stays not alive with HP 0 in
\* every later step of the battle.
C5_DeadStaysDead ==
    /\ [](\A id \in DOMAIN chars : ~chars[id].Alive => chars[id].Stats.HP = 0)
    /\ [][\A id \in DOMAIN chars :
             ~chars[id].Alive => ~chars'[id].Alive /\ chars'[id].Stats.HP = 0]_vars

\* A combatant killed by damage over time has used a healing skill on itself.
C5_Witness ==
    /\ call.op = "act" /\ call.action = "skill"
    /\ ~chars[call.who].Alive
    /\ chars[call.who].Skills[call.skill + 1].HealHP > 0
    /\ call.targ = <<call.who>>

SpeedsOf(cs, order) == [k \in 1 .. Len(order) |-> EffectiveSpeed(cs[order[k]])]

\* C6: the order a round is built with is non-increasing in effective speed, and
\* the round's actors take their turns in that order, one place after the other.
C6_OrderBySpeed ==
    /\ [](pc = "turn" /\ idx = 1 =>
            \A i \in 1 .. Len(all) : \A j \in 1 .. Len(all) :
                i < j => SpeedsOf(chars, all)[i] >= SpeedsOf(chars, all)[j])
    /\ [][pc = "turn" =>
            /\ call'.who = all[idx]
            /\ pc' = "turn" => all' = all /\ idx' = idx + 1]_vars

\* The spec's example: speeds 7, 5, 4, 6 in roster order act as 7, 6, 5, 4.
C6_Witness ==
    /\ pc = "turn" /\ idx = 1
    /\ SpeedsOf(chars, Players \o Enemies) = <<7, 5, 4, 6>>
    /\ SpeedsOf(chars, all) = <<7, 6, 5, 4>>

\* What ApplyEffectsEndTurn is to leave of effects: those not yet ticked as often
\* as the Duration they were attached with, each ticked once more.
C7_Kept(effects) ==
    SelectSeq(effects, LAMBDA e : e.Ticks + 1 < AttachedDuration(e))

C7_Step ==
    LET who == call'.who
        old == C7_Kept(chars[who].Effects)
        new == chars'[who].Effects
    IN  call'.op = "ApplyEffectsEndTurn" =>
            /\ Len(new) = Len(old)
            /\ \A k \in 1 .. Len(new) :
                  /\ new[k].Name = old[k].Name
                  /\ new[k].Ticks = old[k].Ticks + 1
                  /\ new[k].Duration > 0

\* C7: an effect attached with Duration D >= 1 is in the list after fewer than D
\* end-of-turn ticks and not after D; and no end-of-turn tick leaves an effect
\* with Duration <= 0 in the list.
C7_EffectLastsDuration ==
    /\ [](\A id \in DOMAIN chars : \A k \in 1 .. Len(chars[id].Effects) :
            LET e == chars[id].Effects[k]
            IN  AttachedDuration(e) >= 1 =>
                    /\ e.Ticks < AttachedDuration(e)
                    /\ e.Duration = AttachedDuration(e) - e.Ticks)
    /\ [][C7_Step]_vars

\* A poison of Duration 2 is still there after its first tick.
C7_Witness ==
    /\ call.op = "ApplyEffectsEndTurn"
    /\ Len(chars[call.who].Effects) = 1
    /\ chars[call.who].Effects[1].Name = "poison"
    /\ chars[call.who].Effects[1].Ticks = 1

\* C8: EquipArmor (HPBonus >= 0) and then UnequipArmor, on a character with
\* 0 < HP <= HPMax, give back the HP and the HPMax of before EquipArmor.
C8_RoundTrip ==
    [][(/\ call.op = "EquipArmor" /\ call'.op = "UnequipArmor"
        /\ call'.who = call.who
        /\ 0 < call.hp /\ call.hp <= call.hpMax)
       => /\ chars'[call.who].Stats.HPMax = call.hpMax
          /\ chars'[call.who].Stats.HP = call.hp]_vars

C9_Step ==
    LET who == call'.who
        c == chars[who]
        amount == call'.amount
        less == IF call'.dtype = Physical THEN GoDiv(EffectiveDefense(c), 2)
                ELSE IF call'.dtype = Magic THEN GoDiv(c.Stats.Resist, 2)
                ELSE 0
        dealt == Min(Max(1, amount - less), c.Stats.HP)
    IN  (call'.op = "TakeDamage" /\ amount >= 0 /\ c.Alive)
        => /\ dealt >= 1
           /\ chars'[who].Stats.HP = c.Stats.HP - dealt

\* C9: TakeDamage of an amount >= 0 on a living combatant lowers its HP by
\* max(1, amount less the mitigation), but by no more than the HP it has; that
\* is by 1 at least.
C9_AtLeastOneDamage == [][C9_Step]_vars

\* A physical hit of 0 has cost a living character at full health 1 HP.
C9_Witness ==
    /\ call.op = "TakeDamage" /\ call.amount = 0 /\ call.dtype = Physical
    /\ chars[call.who].Alive
    /\ chars[call.who].Stats.HP = chars[call.who].Stats.HPMax - 1

\* The spec's scenarios: heal 18 at 10 of 45, and at 40 of 45.
C10_Example ==
    LET at(hp) == [chars |-> [id \in {"c"} |->
                      [Cleric EXCEPT !.Stats.HPMax = 45, !.Stats.HP = hp]],
                   log |-> <<>>]
    IN  /\ Heal(at(10), "c", 18).chars["c"].Stats.HP = 28
        /\ Heal(at(40), "c", 18).chars["c"].Stats.HP = 45

C10_Step ==
    LET who == call'.who
        c == chars[who]
    IN  (call'.op = "Heal" /\ call'.amount >= 0)
        => /\ chars' = [chars EXCEPT ![who].Stats.HP =
                            Min(c.Stats.HP + call'.amount, c.Stats.HPMax)]
           /\ log' = <<>>

\* C10: Heal(amount), amount >= 0, sets HP to min(HP + amount, HPMax) and changes
\* nothing else.
C10_HealClamps == [][C10_Step /\ C10_Example]_vars

\* A heal of 3 on a character 1 HP short of HPMax has filled it up.
C10_Witness ==
    /\ call.op = "Heal" /\ call.amount = 3
    /\ call.hp = chars[call.who].Stats.HPMax - 1
    /\ chars[call.who].Stats.HP = chars[call.who].Stats.HPMax
    /\ chars[call.who].Alive

\* A battle of one player and one enemy in its first round, nobody having acted:
\* both at 1 HP, the enemy the faster.
C11_Scenario ==
    /\ Len(Players) = 1 /\ Len(Enemies) = 1
    /\ pc = "turn" /\ idx = 1 /\ Round = 1 /\ call.op = "Turn"
    /\ chars[Players[1]].Stats.HP = 1 /\ chars[Enemies[1]].Stats.HP = 1
    /\ EffectiveSpeed(chars[Enemies[1]]) > EffectiveSpeed(chars[Players[1]])

\* The enemy has dealt its damage: this step has cost the player HP.
C11_Blow == C11_Scenario /\ chars'[Players[1]].Stats.HP < chars[Players[1]].Stats.HP

\* The player is dead in round 1 at the enemy's hand, Turn has returned to Run.
C11_Down ==
    /\ Len(Players) = 1 /\ Len(Enemies) = 1
    /\ pc = "run" /\ Round = 1 /\ call.op = "act" /\ call.who = Enemies[1]
    /\ ~chars[Players[1]].Alive

\* C11: one player and one enemy, both at 1 HP, the enemy the faster: the enemy
\* takes the first turn; when that turn costs the player HP the player is dead,
\* Turn returns without the player's turn, and the one step Run then takes is
\* to report the enemies winner, still in round 1; nothing follows the report.
C11_EnemyStrikesFirst ==
    /\ [][C11_Scenario => call'.op = "act" /\ call'.who = Enemies[1]]_vars
    /\ [][C11_Blow => /\ ~chars'[Players[1]].Alive /\ chars'[Enemies[1]].Alive
                      /\ pc' = "run" /\ Round' = 1
                      /\ call'.action \in {"attack", "skill"}]_vars
    /\ [][C11_Down => /\ pc' = "done" /\ Round' = 1
                      /\ log' = <<Ev("Enemies win!", NoChar, NoChar)>>]_vars
    /\ [][pc # "done"]_vars

\* The enemies have won in round 1 a battle that the player, of 1 HP, never
\* fought in: the enemy's attack was the last action.
C11_Witness ==
    /\ pc = "done" /\ Round = 1
    /\ log = <<Ev("Enemies win!", NoChar, NoChar)>>
    /\ Len(Players) = 1 /\ Len(Enemies) = 1
    /\ chars[Players[1]].Stats.HPMax = 1 /\ ~chars[Players[1]].Alive
    /\ chars[Enemies[1]].Stats.HP = 1

\* The place of id in the rosters as Turn lines them up, players first.
C12_Place(id) == CHOOSE k \in 1 .. Len(Players \o Enemies) : (Players \o Enemies)[k] = id

\* C12: in the order a round is built with, combatants of equal effective speed
\* stand in roster order (players before enemies, each roster in its own order).
C12_TiesInRosterOrder ==
    (pc = "turn" /\ idx = 1) =>
        \A i \in 1 .. Len(all) : \A j \in 1 .. Len(all) :
            (i < j /\ EffectiveSpeed(chars[all[i]]) = EffectiveSpeed(chars[all[j]]))
                => C12_Place(all[i]) < C12_Place(all[j])

\* The actor whose turn it is, as its start-of-turn effects leave the battle.
C19_AfterDot == ApplyEffectsStartTurn([chars |-> chars, log |-> <<>>], all[idx])

\* C19: an actor that is not alive is passed over and changes nothing; an actor
\* that its own damage over time kills at the start of its turn changes nothing
\* more in that turn than its effects do: no HP or MP of anyone, no effect added.
C19_DeadDoNotAct ==
    /\ [][(pc = "turn" /\ ~chars[all[idx]].Alive)
             => call'.action = "skip" /\ chars' = chars]_vars
    /\ [][(pc = "turn" /\ chars[all[idx]].Alive /\ ~C19_AfterDot.chars[all[idx]].Alive)
             => chars' = ApplyEffectsEndTurn(C19_AfterDot, all[idx]).chars]_vars

C20_Acts(lg) ==
    \E k \in 1 .. Len(lg) : lg[k].ev \in {"attacks", "uses skill", "deals damage", "heals"}

C20_Over(cs) == AllDead(cs, "player") \/ AllDead(cs, "enemy")

\* C20: a turn after which a roster is fully defeated is the last of its round,
\* and a turn in which a roster is fully defeated before the actor's action (by
\* the actor's damage over time) has no attack and no skill in it.
C20_NoActionOnceOver ==
    /\ [][(pc = "turn" /\ C20_Over(chars')) => pc' # "turn"]_vars
    /\ [][(pc = "turn" /\ chars[all[idx]].Alive /\ C20_Over(C19_AfterDot.chars))
             => ~C20_Acts(log')]_vars

\* A cart item the catalogue cannot serve: its product is gone or short of stock.
C13_Short(id) ==
    \/ id \notin DOMAIN shop.products.items
    \/ shop.products.items[id].Stock < shop.cart.items[id].Quantity

C13_Total(items) ==
    LET line(id) == IF id \in DOMAIN items
                    THEN items[id].Quantity * items[id].Product.Price ELSE 0
    IN  line(1) + line(2) + line(3) + line(4)

C13_Step ==
    shop'.call.op = "CreateOrder" =>
        IF \E id \in DOMAIN shop.cart.items : C13_Short(id)
        THEN /\ shop'.call.err # "nil"
             /\ shop'.products = shop.products
             /\ shop'.cart = shop.cart
        ELSE /\ shop'.call.err = "nil"
             /\ DOMAIN shop'.products.items = DOMAIN shop.products.items
             /\ \A id \in DOMAIN shop.products.items :
                   shop'.products.items[id] =
                     IF id \in DOMAIN shop.cart.items
                     THEN [shop.products.items[id] EXCEPT
                             !.Stock = @ - shop.cart.items[id].Quantity]
                     ELSE shop.products.items[id]
             /\ shop'.call.order.Total = C13_Total(shop.cart.items)
             /\ shop'.call.order.Items = shop.cart.items
             /\ shop'.cart.items = EmptyMap

\* TestCartAddUpdateCheckout: a product of price 2.0 and stock 2, added twice by
\* one, is ordered for 4.0 and leaves a stock of 0.
C13_Example ==
    LET ps == ProductService_Create(NewProductService, [ID |-> 0, Price |-> 4, Stock |-> 2])
        y == ps.items[4]
        c == CartService_Add(CartService_Add(NewCartService, y, 1).s, y, 1).s
    IN  \A r \in CreateOrder(c, ps) :
            r.err = "nil" /\ r.order.Total = 8 /\ r.products.items[4].Stock = 0

\* C13: CreateOrder either succeeds, every cart item's quantity taken from its
\* product's stock, the total the sum of quantity x price and the cart emptied,
\* or, a cart product being gone from the catalogue or short of stock, fails and
\* leaves every stock and the cart as they were.
C13_AllOrNothing == [][C13_Step /\ C13_Example]_vars

\* An order of two products has failed on the one that is short of stock, the
\* other being in stock.
C13_Witness ==
    /\ shop.call.op = "CreateOrder" /\ shop.call.err = "not enough stock"
    /\ DOMAIN shop.cart.items = {1, 2}
    /\ \E id \in {1, 2} : ~C13_Short(id)

\* The last k elements of seq, all of it if it has no more than k.
C14_Last(seq, k) ==
    IF Len(seq) <= k THEN seq ELSE SubSeq(seq, Len(seq) - k + 1, Len(seq))

\* TestAddAndGetMessages and TestCapacity: one, two of capacity 3 are kept;
\* one, two, three of capacity 2 leave two, three.
C14_Example ==
    LET m(k, t) == [ID |-> k, Text |-> t]
        s2 == AddMessage(AddMessage(NewChatService(3), m(1, "one")), m(2, "two"))
        t2 == AddMessage(AddMessage(NewChatService(2), m(1, "one")), m(2, "two"))
        t3 == AddMessage(t2, m(3, "three"))
    IN  /\ GetMessages(s2) = <<m(1, "one"), m(2, "two")>>
        /\ GetMessages(t3) = <<m(2, "two"), m(3, "three")>>

\* C14: after n calls of AddMessage on a service of capacity C >= 1 the buffer
\* holds the last min(n, C) messages added, in the order they were added, and
\* that is what GetMessages returns.
C14_LastMessagesKept ==
    /\ [](chat.messages = C14_Last(chat.added, chat.capacity))
    /\ [][chat'.call.op = "GetMessages" =>
             chat'.call.ret = C14_Last(chat.added, chat.capacity)]_vars
    /\ [][C14_Example]_vars

\* GetMessages has returned the second and the third of three messages added to
\* a service of capacity 2: the first was evicted.
C14_Witness ==
    /\ chat.call.op = "GetMessages"
    /\ chat.capacity = 2 /\ Len(chat.added) = 3
    /\ chat.call.ret = <<chat.added[2], chat.added[3]>>

\* The sum over the cart's items of quantity x price, product by product.
C15_Sum(items) ==
    LET line(id) == IF id \in DOMAIN items
                    THEN items[id].Quantity * items[id].Product.Price ELSE 0
    IN  line("p1") + line("p2") + line("p3")

C15_AddStep ==
    LET p == cart'.call.p
        qty == cart'.call.qty
    IN  (cart'.call.op = "Add" /\ qty >= 1) =>
            /\ cart'.call.err = "nil"
            /\ DOMAIN cart'.items = DOMAIN cart.items \cup {p.ID}
            /\ \A id \in DOMAIN cart.items \ {p.ID} : cart'.items[id] = cart.items[id]
            /\ cart'.items[p.ID] =
                  IF p.ID \in DOMAIN cart.items
                  THEN [Product |-> cart.items[p.ID].Product,
                        Quantity |-> cart.items[p.ID].Quantity + qty]
                  ELSE [Product |-> p, Quantity |-> qty]

\* TestAddAndTotal and TestClear: 2 x 2.5 + 1 x 1.0 is 6.0; nothing after Clear.
C15_Example ==
    LET s1 == CartService_Add(NewCartService, [ID |-> "p1", Price |-> 5], 2).s
        s2 == CartService_Add(s1, [ID |-> "p2", Price |-> 2], 1).s
    IN  /\ CartService_Total(s2) = 12
        /\ CartService_Total(CartService_Clear(s1)) = 0

\* C15: Add with qty >= 1 puts the product in the cart with that quantity or, if
\* its ID is in the cart, raises the quantity there by qty; and whatever calls
\* were made, Total is the sum over the items of quantity x price, 0 when the
\* cart is empty, and is what a call of Total returns.
C15_AddAndTotal ==
    /\ [](/\ CartService_Total([items |-> cart.items]) = C15_Sum(cart.items)
          /\ (cart.items = EmptyMap => CartService_Total([items |-> cart.items]) = 0)
          /\ C15_Example)
    /\ [][C15_AddStep]_vars
    /\ [][cart'.call.op = "Total" =>
             cart'.call.total = C15_Sum(cart.items) /\ cart'.items = cart.items]_vars

\* Two more of p1 were added, at another price, to the one in the cart, which
\* holds p2 as well: three of p1 at the first price.
C15_Witness ==
    /\ cart.call.op = "Add" /\ cart.call.qty = 2 /\ cart.call.p.ID = "p1"
    /\ DOMAIN cart.items = {"p1", "p2"}
    /\ cart.items["p1"].Quantity = 3
    /\ cart.items["p1"].Product.Price # cart.call.p.Price

C16_UpdateStep ==
    LET id == cart'.call.id
        qty == cart'.call.qty
    IN  cart'.call.op = "Update" =>
            IF qty > 0 /\ id \in DOMAIN cart.items
            THEN /\ cart'.call.err = "nil"
                 /\ cart'.items = [cart.items EXCEPT ![id].Quantity = qty]
            ELSE IF qty = 0
            THEN /\ cart'.call.err = "nil"
                 /\ DOMAIN cart'.items = DOMAIN cart.items \ {id}
                 /\ \A k \in DOMAIN cart'.items : cart'.items[k] = cart.items[k]
            ELSE /\ cart'.call.err # "nil"
                 /\ cart'.items = cart.items

\* C16: Update(id, qty) sets the quantity of an item in the cart to qty > 0,
\* removes the item when qty = 0, and otherwise (qty < 0, or qty > 0 and the
\* product not in the cart) returns an error and leaves the cart as it was;
\* every item in the cart has a quantity of at least 1.
C16_UpdateKeepsQuantities ==
    /\ [](\A id \in DOMAIN cart.items : cart.items[id].Quantity >= 1)
    /\ [][C16_UpdateStep]_vars

\* An Update with quantity -1 of a product that is in the cart was refused.
C16_Witness ==
    /\ cart.call.op = "Update" /\ cart.call.qty = -1
    /\ cart.call.id \in DOMAIN cart.items
    /\ cart.call.err = "quantity must be >= 0"


\* The service has room for one more todo: no limit, or fewer stored than it.
C17_Room == todo.limit <= 0 \/ Cardinality(DOMAIN todo.items) < todo.limit

\* The step is an Add with a non-blank title.
C17_Adds == todo'.call.op = "Add" /\ TrimSpace(todo'.call.title) # <<>>

\* What Add gave back is a new non-zero id under which Get finds the todo.
C17_Stored ==
    LET id == todo'.call.t.ID
    IN  /\ todo'.call.err = "nil"
        /\ id # 0
        /\ id \notin DOMAIN todo.items
        /\ TodoService_Get(Service(todo'), id) = [t |-> todo'.call.t, ok |-> TRUE]
        /\ todo'.call.t.Title = TrimSpace(todo'.call.title)

\* A stored todo stays under its id until Delete of that id or Clear removes it.
C17_Kept ==
    \A id \in DOMAIN todo.items :
        \/ todo'.call.op = "Delete" /\ todo'.call.id = id
        \/ todo'.call.op = "Clear"
        \/ /\ TodoService_Get(Service(todo'), id).ok
           /\ TodoService_Get(Service(todo'), id).t.ID = id

\* Delete(id) returns true exactly when id was stored; afterwards Get(id) fails.
C17_Deletes ==
    todo'.call.op = "Delete" =>
        /\ todo'.call.ok <=> todo'.call.id \in DOMAIN todo.items
        /\ ~TodoService_Get(Service(todo'), todo'.call.id).ok

\* C17 as stated: every Add with a non-blank title returns a non-zero id,
\* distinct from every id stored, under which Get finds the todo until it is
\* deleted; Delete(id) returns true exactly when the id was stored, and
\* afterwards Get(id) reports not found.
C17_AddAlwaysStores ==
    [][(C17_Adds => C17_Stored) /\ C17_Kept /\ C17_Deletes]_vars

\* C17, amended: the same for every Add with a non-blank title made while the
\* service has room (its limit is 0 or fewer todos than the limit are stored);
\* an Add made when the limit is reached returns an error, the zero Todo, and
\* stores nothing.
C17_AddStoresWithinLimit ==
    [][/\ C17_Adds /\ C17_Room => C17_Stored
       /\ C17_Adds /\ ~C17_Room =>
             /\ todo'.call.err = "limit reached" /\ todo'.call.t = ZeroTodo
             /\ todo'.items = todo.items /\ todo'.nextID = todo.nextID
       /\ C17_Kept
       /\ C17_Deletes]_vars

\* A third todo has been added, under a trimmed title, next to a stored second
\* one, after the first was deleted.
C17_Witness ==
    /\ todo # Off
    /\ todo.call.op = "Add" /\ todo.call.title = <<" ", "b", " ">>
    /\ todo.call.t = [ID |-> 3, Title |-> <<"b">>, Done |-> FALSE]
    /\ DOMAIN todo.items = {2, 3}


\* The number of calls for ip that returned true with a time in from .. to.
C18_Granted(ip, from, to) ==
    Cardinality({i \in DOMAIN limiter.granted[ip] :
                    from <= limiter.granted[ip][i] /\ limiter.granted[ip][i] <= to})

\* Every window of RateWindow ticks, a .. a + RateWindow - 1, holds at most
\* RateMax granted calls of each ip.
C18_Window ==
    \A ip \in IPs : \A a \in 0 .. MaxClock :
        C18_Granted(ip, a, a + limiter.window - 1) <= limiter.max

\* A return of allow: true exactly when fewer than max calls of the ip were
\* granted in the window that ends at the call's time, the denied calls not
\* counted; a denied call leaves the records as they were.
C18_Return ==
    \A g \in Callers :
        limiter.procs[g].pc = "decide" /\ limiter'.procs[g].pc = "idle" =>
            LET me == limiter.procs[g]
            IN  /\ limiter'.call.ok <=>
                       C18_Granted(me.ip, me.now - limiter.window + 1, me.now) < limiter.max
                /\ ~limiter'.call.ok =>
                       /\ limiter'.requests = limiter.requests
                       /\ limiter'.granted = limiter.granted

\* C18: for every client ip and every time interval of length window, allow
\* returns true for at most max calls whose times fall in the interval, under
\* every interleaving of concurrent callers; a denied call is not recorded and
\* does not count against later calls.
C18_SlidingWindow == [](limiter # Off => C18_Window) /\ [][C18_Return]_vars

\* A call for ip a has just been denied while another request holds the mutex,
\* after the window slid far enough for more than RateMax calls of a to be
\* granted.
C18_Witness ==
    /\ limiter # Off
    /\ limiter.call = [ip |-> "a", now |-> limiter.call.now, ok |-> FALSE]
    /\ Len(limiter.granted["a"]) > limiter.max
    /\ limiter.mu # "free"


\* The skill the actor of the step uses, and the roster opposing the actor.
C21_Skill == chars[call'.who].Skills[call'.skill + 1]

C21_Opposing == IF chars[call'.who].Team = "player" THEN Enemies ELSE Players

\* The step is a turn in which the actor uses a skill.
C21_UsesSkill == pc = "turn" /\ call'.op = "act" /\ call'.action = "skill"

\* C21: a skill with HealHP = 0 is never applied to the actor itself and only to
\* combatants of the opposing roster, whatever the actor's team and HP.
C21_DamageSkillsHitOpponents ==
    [][(C21_UsesSkill /\ C21_Skill.HealHP = 0)
          => /\ call'.who \notin Range(call'.targ)
             /\ Range(call'.targ) \subseteq Range(C21_Opposing)]_vars


\* C22: a skill with HealHP > 0 used by a player-team actor is applied to the
\* actor only; in that turn no combatant of the enemy roster gains HP or has an
\* effect attached, also when the skill has TargetAll set.
C22_PlayerHealsSelfOnly ==
    [][(C21_UsesSkill /\ C21_Skill.HealHP > 0 /\ chars[call'.who].Team = "player")
          => /\ call'.targ = <<call'.who>>
             /\ \A e \in Range(Enemies) :
                   /\ chars'[e].Stats.HP <= chars[e].Stats.HP
                   /\ Len(chars'[e].Effects) <= Len(chars[e].Effects)]_vars


\* The step is a turn in which the actor takes the basic-attack branch: the
\* 50% draw went against a skill, or the skill picked costs more MP than it has.
C23_AttackBranch == pc = "turn" /\ call'.op = "act" /\ call'.action \in {"attack", "none"}

\* The first living combatant of the roster opposing the actor, in roster order.
C23_FirstLiving ==
    LET k == CHOOSE k \in 1 .. Len(C21_Opposing) :
                 /\ chars[C21_Opposing[k]].Alive
                 /\ \A m \in 1 .. k - 1 : ~chars[C21_Opposing[m]].Alive
    IN  C21_Opposing[k]

\* The actor attacks that combatant in the step, and its MP stays as it was.
C23_Attacks ==
    /\ \E k \in 1 .. Len(log') : log'[k] = Ev("attacks", call'.who, C23_FirstLiving)
    /\ chars'[call'.who].Stats.MP = chars[call'.who].Stats.MP

\* C23: in every turn that takes the basic-attack branch the attack happens in
\* that turn, on the first living combatant of the opposing roster, and the
\* actor's MP is unchanged.
C23_BranchAlwaysAttacks == [][C23_AttackBranch => C23_Attacks]_vars

\* What does hold of the branch: the actor attacks if it is still alive after
\* its start-of-turn effects; an actor those effects have killed makes no
\* attack, and its turn changes nothing but what its effects change.
C23_LivingActorAttacks ==
    [][C23_AttackBranch =>
          IF C19_AfterDot.chars[call'.who].Alive THEN C23_Attacks
          ELSE /\ \A k \in 1 .. Len(log') : log'[k].ev # "attacks"
               /\ chars' = ApplyEffectsEndTurn(C19_AfterDot, call'.who).chars]_vars


\* What the statement has TakeDamage subtract: half the effective defense or
\* half the resistance, rounded down (\div rounds down), nothing for pure damage.
C24_Subtracted(c, dtype) ==
    IF dtype = Physical THEN EffectiveDefense(c) \div 2
    ELSE IF dtype = Magic THEN c.Stats.Resist \div 2
    ELSE 0

\* A call of TakeDamage leaves the HP that this mitigation gives, with the
\* minimum of 1 damage and HP stopping at 0.
C24_Step ==
    call'.op = "TakeDamage" =>
        LET c == chars[call'.who]
            actual == Max(1, call'.amount - C24_Subtracted(c, call'.dtype))
        IN  chars'[call'.who].Stats.HP = Max(0, c.Stats.HP - actual)

\* Attack 6, weapon roll 3 .. 6, target defense 3, no crit: raw is 9 .. 12 and
\* the damage dealt is raw - 1.
C24_Example ==
    LET target == [Orc EXCEPT !.Stats.Defense = 3]
    IN  \A roll \in 3 .. 6 :
            LET raw == roll + 6
            IN  /\ raw \in 9 .. 12
                /\ MinDamage(Mitigated(target, raw, Physical)) = raw - 1

\* C24: mitigation subtracts effectiveDefense/2 rounded down for physical
\* damage, resistance/2 rounded down for magic damage and nothing for pure
\* damage, for every integer value of the stats, a negative effective defense
\* included; in the example the damage dealt is raw - 1.
C24_MitigationFloors == [][C24_Step /\ C24_Example]_vars


\* The HPBonus of the armor c has on, 0 when it has none.
C25_Bonus(c) == IF c.Armor # Nil THEN c.Armor.HPBonus ELSE 0

\* C25: after any sequence of EquipArmor and UnequipArmor calls a combatant's
\* HPMax is its base HPMax (the one it was made with) plus the HPBonus of the
\* armor it has on: equipping over another armor reverses that armor's bonus.
C25_MaxHPFollowsArmor ==
    pc = "idle" =>
        \A id \in Subjects :
            chars[id].Stats.HPMax = Duel.chars[id].Stats.HPMax + C25_Bonus(chars[id])


\* The number of skill uses and basic attacks among the events of a turn.
C26_Actions(lg) ==
    Cardinality({k \in 1 .. Len(lg) : lg[k].ev \in {"uses skill", "attacks"}})

\* The order of a round holds every combatant once.
C26_EachOnce ==
    pc = "turn" =>
        /\ Len(all) = Len(Players) + Len(Enemies)
        /\ \A i \in 1 .. Len(all) : \A j \in 1 .. Len(all) : all[i] = all[j] => i = j

\* A turn is the turn of the combatant at idx; within the round the next turn is
\* that of the next combatant of the same order; the turn holds at most one
\* skill use or basic attack, and they are the actor's.
C26_Step ==
    pc = "turn" =>
        /\ call'.op = "act" /\ call'.who = all[idx]
        /\ pc' = "turn" => idx' = idx + 1 /\ all' = all
        /\ C26_Actions(log') <= 1
        /\ \A k \in 1 .. Len(log') :
               log'[k].ev \in {"uses skill", "attacks"} => log'[k].who = all[idx]

\* C26: in each round every combatant takes at most one turn, and in its turn
\* performs at most one action, a skill use or a basic attack, never both.
C26_OneTurnOneAction == []C26_EachOnce /\ [][C26_Step]_vars

\* An actor after the first of a round of four has just used one skill on both
\* combatants of the opposing roster.
C26_Witness ==
    /\ pc = "turn" /\ idx > 2 /\ Len(all) = 4
    /\ call.op = "act" /\ call.action = "skill" /\ Len(call.targ) = 2
    /\ C26_Actions(log) = 1


\* C27: every read and every write of currentDir and of the pushd/popd stack is
\* made by a goroutine that holds dirMu: no access is unsynchronised, and a
\* reader under dirMu never sees a directory in the middle of being assigned.
C27_DirMuGuardsEveryAccess ==
    /\ [](shell # Off => shell.access.held /\ shell.seen # Torn)
    /\ [][shell'.currentDir # shell.currentDir \/ shell'.dirStack # shell.dirStack
             => shell.dirMu # "free"]_vars


\* C28: a refresh token is accepted by /refresh at most once: a successful
\* refresh deletes the token it was given and issues a new one, and of the
\* requests that present the same token, however interleaved, at most one is
\* answered 200.
C28_RefreshTokenUsedOnce ==
    /\ [](auth # Off => \A t \in DOMAIN auth.accepted : auth.accepted[t] <= 1)
    /\ [][(auth'.resp.op = "refresh" /\ auth'.resp.status = 200 /\ auth'.resp # auth.resp)
             => /\ auth'.resp.token \notin DOMAIN auth'.refreshTokens
                /\ auth'.resp.new \in DOMAIN auth'.refreshTokens
                /\ auth'.resp.new \notin DOMAIN auth.refreshTokens]_vars


\* No product has a negative stock.
C29_StocksNonNegative ==
    \A id \in DOMAIN shop.products.items : shop.products.items[id].Stock >= 0

\* While a checkout is between its stock check and its deduction, no step
\* changes a product or the cart it checks out.
C29_Atomic ==
    \A b \in Buyers :
        (shop.procs[b].pc = "reduce" /\ shop'.procs[b].pc = "reduce")
            => /\ shop'.products = shop.products
               /\ shop'.carts[shop.procs[b].cart] = shop.carts[shop.procs[b].cart]

\* C29: under every interleaving of CreateOrder calls, on the same cart or on
\* different ones, with the other operations of the product and cart services,
\* the stock check and the deduction of a checkout are atomic with respect to
\* every other checkout, and no stock that starts non-negative gets negative.
C29_CheckoutsAtomic ==
    [](shop # Off => C29_StocksNonNegative) /\ [][C29_Atomic]_vars

\* A checkout of one cart has just taken the last of product 1 that the other
\* cart still asks for.
C29_Witness ==
    /\ shop # Off
    /\ shop.call = [op |-> "CreateOrder", cart |-> "c1", err |-> "nil"]
    /\ 1 \in DOMAIN shop.products.items /\ shop.products.items[1].Stock = 0
    /\ 1 \in DOMAIN shop.carts["c2"].items

\* The IDs of what was written to a connection increase: the ID of a message is
\* the number of its AddMessage call.
C30_InOrder(written) ==
    \A i, j \in 1..Len(written) : i < j => written[i].ID < written[j].ID

\* C30: every client receives the messages in the order in which AddMessage
\* stored them: for two messages added one after the other, no connection has
\* the later one written to it before the earlier one.
C30_ClientsReceiveInOrder ==
    chat # Off => \A conn \in DOMAIN chat.wire : C30_InOrder(chat.wire[conn])

====
